---- MODULE Spec2Model ----
(***************************************************************************)
(* Flight record reconciliation (POST /flights/scan) and the chat          *)
(* tool-calling loop of ai-flight-stats, as state machines.                *)
(*                                                                         *)
(* The flights table is a set of rows; a scan request is a process whose   *)
(* program counter follows the handler: it suspends at                     *)
(* `await parseFlightEmail(...)` and runs the duplicate check, the change  *)
(* detection, the deletes and the insert of every flight of that email     *)
(* without suspending (better-sqlite3 calls are synchronous).              *)
(***************************************************************************)
EXTENDS Integers, Sequences, FiniteSets, Bags, TLC

\* SQL NULL in a column, undefined/null in a TypeScript value.
NULL == "NULL"

(***************************************************************************)
(* Bounds and input domains                                                *)
(***************************************************************************)

\* Emails one scan request processes.
MaxEmails == 3

\* Emails of a scan that is repeated, overlapped by a second request, or run
\* on a store that can fail.
MaxBatch == 2

\* Times the model lets a finished scan be repeated over the same emails.
MaxRescans == 2

FlightDates == {"2024-05-10", "2024-05-12"}

\* (confirmation number, flight number) of the segments of the first user:
\* no key at all, a booking without a flight number, the same booking on a
\* flight, another booking on that flight, and that booking on another
\* flight.
Bookings ==
  { <<NULL, NULL>>, <<"ABC123", NULL>>, <<"ABC123", "UA100">>,
    <<"XYZ789", "UA100">>, <<"XYZ789", "DL200">> }

\* Gmail messages of a user: the message id and the sent date Gmail reports.
Mailbox(u) ==
  IF u = "dedup@example.com"
    THEN { [id |-> "msg-old", sentDate |-> "2024-04-05T08:00:00.000Z"],
           [id |-> "msg-new", sentDate |-> "2024-04-06T12:00:00.000Z"],
           [id |-> "msg-nodate", sentDate |-> NULL] }
    ELSE { [id |-> "msg-old", sentDate |-> "2024-04-05T08:00:00.000Z"] }

Segment(b, d) ==
  [ confirmationNumber |-> b[1], flightDate |-> d, departureAirport |-> "SFO",
    arrivalAirport |-> "LAX", flightNumber |-> b[2] ]

\* The accepted segments (normalised, airports resolved) an email of the user
\* can yield.
Segments(u) ==
  IF u = "dedup@example.com"
    THEN { Segment(b, d) : b \in Bookings, d \in FlightDates }
    ELSE { Segment(<<"ABC123", "UA100">>, "2024-05-10") }

\* The segment lists an extraction can return: none, one segment, or the two
\* days of one booking.
SegmentLists(u) ==
  { <<s>> : s \in Segments(u) }
    \cup (IF u = "dedup@example.com"
            THEN { <<>>,
                   << Segment(<<"ABC123", "UA100">>, "2024-05-10"),
                      Segment(<<"ABC123", "UA100">>, "2024-05-12") >> }
            ELSE {})

(***************************************************************************)
(* parseFlightEmail: the flights of one email with their provenance        *)
(***************************************************************************)

\* gmailService.getEmailContent(msg.id): the body of the message.
EmailContent(msg) == "body of " \o msg.id

ParsedFlight(seg, msg) ==
  [ confirmationNumber |-> seg.confirmationNumber,
    flightDate |-> seg.flightDate,
    departureAirport |-> seg.departureAirport,
    arrivalAirport |-> seg.arrivalAirport,
    flightNumber |-> seg.flightNumber,
    emailMessageId |-> msg.id,
    emailSentDate |-> msg.sentDate,
    rawEmailContent |-> EmailContent(msg) ]

EnrichedFlights(segs, msg) ==
  [ k \in 1..Len(segs) |-> ParsedFlight(segs[k], msg) ]

\* Every result `await parseFlightEmail(emailInput)` can resolve to for an
\* email of the user.
Extractions(u) ==
  { EnrichedFlights(segs, msg) : segs \in SegmentLists(u), msg \in Mailbox(u) }

(***************************************************************************)
(* The flights table                                                       *)
(***************************************************************************)

\* flightRecord built by the handler from one parsed flight.
FlightRecord(userEmail, flight) ==
  [ user_email |-> userEmail,
    confirmation_number |-> flight.confirmationNumber,
    flight_date |-> flight.flightDate,
    departure_airport |-> flight.departureAirport,
    arrival_airport |-> flight.arrivalAirport,
    flight_number |-> flight.flightNumber,
    email_message_id |-> flight.emailMessageId,
    email_sent_date |-> flight.emailSentDate,
    raw_email_content |-> flight.rawEmailContent ]

\* The row INSERT stores for a flight: its columns and the new rowid.
Row(id, f) ==
  [ id |-> id,
    user_email |-> f.user_email,
    confirmation_number |-> f.confirmation_number,
    flight_date |-> f.flight_date,
    departure_airport |-> f.departure_airport,
    arrival_airport |-> f.arrival_airport,
    flight_number |-> f.flight_number,
    email_message_id |-> f.email_message_id,
    email_sent_date |-> f.email_sent_date,
    raw_email_content |-> f.raw_email_content ]

\* The columns of a row without its rowid.
Columns(r) ==
  [ user_email |-> r.user_email,
    confirmation_number |-> r.confirmation_number,
    flight_date |-> r.flight_date,
    departure_airport |-> r.departure_airport,
    arrival_airport |-> r.arrival_airport,
    flight_number |-> r.flight_number,
    email_message_id |-> r.email_message_id,
    email_sent_date |-> r.email_sent_date,
    raw_email_content |-> r.raw_email_content ]

\* The six columns of the unique index flights_unique_key.
IdentityKey(r) ==
  << r.user_email, r.confirmation_number, r.flight_date,
     r.departure_airport, r.arrival_airport, r.flight_number >>

\* The mutated index: NULLs compare equal, no row is exempt.
FullKeyNullsCompared(r) == TRUE

\* SQL: a NULL in any indexed column exempts the row from the unique index.
FullKey(r) ==
  /\ r.confirmation_number # NULL
  /\ r.flight_number # NULL

\* flights_unique_key: the INSERT of f collides with a stored row.
UniqueIndexHit(rows, f) ==
  \E r \in rows : FullKey(r) /\ FullKey(f) /\ IdentityKey(r) = IdentityKey(f)

(***************************************************************************)
(* db.service: the queries and statements the scan handler calls           *)
(***************************************************************************)

\* findExactDuplicate: the rows of the user with the candidate's confirmation
\* code, flight date, airports and flight number, all non-null and equal.
findExactDuplicate(rows, f) ==
  { r \in rows :
      /\ r.user_email = f.user_email
      /\ f.confirmation_number # NULL /\ r.confirmation_number = f.confirmation_number
      /\ f.flight_number # NULL /\ r.flight_number = f.flight_number
      /\ r.flight_date = f.flight_date
      /\ r.departure_airport = f.departure_airport
      /\ r.arrival_airport = f.arrival_airport }

\* findFlightChange: the rows of the user on the same departure/arrival pair
\* with the same confirmation code or the same flight number; the flight date
\* is not compared. A NULL never equals anything.
findFlightChange(rows, f) ==
  { r \in rows :
      /\ r.user_email = f.user_email
      /\ r.departure_airport = f.departure_airport
      /\ r.arrival_airport = f.arrival_airport
      /\ \/ f.confirmation_number # NULL /\ r.confirmation_number = f.confirmation_number
         \/ f.flight_number # NULL /\ r.flight_number = f.flight_number }

\* deleteFlight: DELETE FROM flights WHERE id = ?
deleteFlight(rows, id) == { r \in rows : r.id # id }

\* createFlight without the unique index.
createFlightUnchecked(rows, id, f, dbError) ==
  IF dbError # "none"
    THEN [ok |-> FALSE, error |-> dbError, rows |-> rows, row |-> NULL]
    ELSE [ok |-> TRUE, error |-> "none", rows |-> rows \cup {Row(id, f)},
          row |-> Row(id, f)]

\* createFlight: the INSERT. It throws 'UNIQUE constraint failed' when the
\* row collides on flights_unique_key, or the error dbError the engine raises
\* for the statement; otherwise the row is stored under the next rowid and
\* returned.
createFlight(rows, id, f, dbError) ==
  IF UniqueIndexHit(rows, f)
    THEN [ok |-> FALSE, error |-> "UNIQUE constraint failed", rows |-> rows,
          row |-> NULL]
  ELSE IF dbError # "none"
    THEN [ok |-> FALSE, error |-> dbError, rows |-> rows, row |-> NULL]
  ELSE [ok |-> TRUE, error |-> "none", rows |-> rows \cup {Row(id, f)},
        row |-> Row(id, f)]

(***************************************************************************)
(* Supersession decision of the scan handler                               *)
(***************************************************************************)

\* Date.parse on the strings that occur: the singleton of the time since the
\* epoch (in seconds here, the strings carry no milliseconds), or the empty
\* set for NaN.
DateParse(value) ==
  CASE value = "2024-04-05T08:00:00.000Z" -> {1712304000}
    [] value = "2024-04-06T12:00:00.000Z" -> {1712404800}
    [] value = "2024-04-07T09:30:00.000Z" -> {1712482200}
    [] OTHER -> {}

\* parseEmailSentDate: the timestamp, or undefined (the empty set) for a
\* missing or unparseable value.
parseEmailSentDate(value) ==
  IF value = NULL \/ value = "" THEN {} ELSE DateParse(value)

\* The mutated list: the sent-dates of the matched rows are left out.
ExistingTimestampsEmpty(existingFlights) == {}

\* existingTimestamps: the parseable sent-dates of the matched rows.
ExistingTimestamps(existingFlights) ==
  UNION { parseEmailSentDate(r.email_sent_date) : r \in existingFlights }

\* Math.max(...existingTimestamps) of a non-empty set.
MathMax(S) == CHOOSE m \in S : \A x \in S : x <= m

\* The mutated comparison: >= in place of >.
shouldReplaceNotStrict(newTimestamp, existingTimestamps) ==
  IF newTimestamp # {}
    THEN existingTimestamps = {}
         \/ \E t \in newTimestamp : t >= MathMax(existingTimestamps)
    ELSE existingTimestamps = {}

\* The mutated decision: every change-key match is replaced.
shouldReplaceAlways(newTimestamp, existingTimestamps) == TRUE

\* shouldReplace
shouldReplace(newTimestamp, existingTimestamps) ==
  IF newTimestamp # {}
    THEN existingTimestamps = {}
         \/ \E t \in newTimestamp : t > MathMax(existingTimestamps)
    ELSE existingTimestamps = {}

(***************************************************************************)
(* The scan handler: router.post('/scan')                                  *)
(***************************************************************************)

VARIABLES
  store,      \* the rows of the flights table
  nextId,     \* the rowid AUTOINCREMENT gives the next inserted row
  req,        \* per request slot: the state of the /flights/scan handler
  rescans,    \* repeated scans the model may still start
  chatPc,         \* where chat() is: "idle", "awaiting", "done", "failed"
  iterations,     \* chat(): let iterations
  messages,       \* chat(): the roles of the messages sent to the backend
  toolCallsInfo,  \* chat(): the tools executed in this turn
  everyToolCalls, \* every response so far had finish_reason 'tool_calls'
  chatResponse,   \* what chat() returned: [content, toolCalls, globeFocus], or NULL
  modelCalls,     \* chat(): calls of chat.completions.create made so far
  chatError,      \* the error chat() rejected with: [kind, at]
  httpStatus,     \* status of the answer of POST /chat, 0 before it
  observed,       \* what the backend did in this turn, see Observations
  finalMessageRaw, \* chat(): the content of the response the loop exited on
  lastResponse,   \* DashboardPage: the chat response handled last, if any
  globeFocus,     \* DashboardPage: useState<GlobeFocus>
  extraction,     \* per request: what the settled extraction call of the next email did
  extracted,      \* per request and email scanned: how its extraction call ended
  batchPc,        \* parseFlightEmails: "idle", "running", "resolved" or "rejected"
  tasks,          \* parseFlightEmails: per email, the task given to limit()
  batchFlights,   \* parseFlightEmails: allFlights
  overtaken,      \* a task has finished while one of an earlier email was running
  toolRun,        \* executeTool: the call being answered and its result, if any
  turn,           \* chat(): the conversation, the responses and the tracked tool calls
  chatInterface   \* ChatInterface: messages, isLoading, isScanning, error

scanVars == << store, nextId, req, rescans >>

chatVars ==
  << chatPc, iterations, messages, toolCallsInfo, everyToolCalls, chatResponse,
     modelCalls, chatError, httpStatus, observed, finalMessageRaw >>

uiVars == << lastResponse, globeFocus >>

extractVars == << extraction, extracted >>

batchVars == << batchPc, tasks, batchFlights, overtaken >>

queryVars == << toolRun >>

turnVars == << turn >>

interfaceVars == << chatInterface >>

Reqs == {1, 2}

\* What can go wrong at an INSERT. "race": another connection on the database
\* file commits a row with the candidate's identity key after the handler's
\* queries. "SQLITE_FULL": the engine fails the statement.
NoFault == {"none"}

StoreFaults == {"none", "race", "SQLITE_FULL"}

IdleRequest ==
  [ pc |-> "idle", user |-> NULL, limit |-> 0, scanned |-> 0,
    parsedCount |-> 0, savedFlights |-> <<>>, batch |-> <<>>,
    replay |-> <<>>, events |-> <<>>, storeAtStart |-> {}, status |-> 0 ]

Active(r) == req[r].pc = "loop"

\* What one pass of the inner loop did: the candidate, the rows the change
\* detection matched, the branch taken ("duplicate", "stale", "insert",
\* "replace"), how it ended ("skipped", "saved", "unique", "error"), the fault
\* that struck its insert, and the table before and after the pass.
Event(f, decision, result, matched, fault, before, after) ==
  [ flight |-> f, decision |-> decision, result |-> result,
    matched |-> matched, fault |-> fault, before |-> before, after |-> after ]

\* The mutated queries: duplicates are looked up among the rows this scan
\* has saved itself, not in the table.
QueryRowsOwnScan(rows, savedFlights) ==
  { r \in rows : \E k \in 1..Len(savedFlights) : savedFlights[k] = r }

\* The rows findExactDuplicate and findFlightChange query: the table as it is
\* when the call is made.
QueryRows(rows, savedFlights) == rows

\* The mutated delete loop: every row of the user of a matched row is
\* deleted.
DeleteMatchedOfUser(rows, matched) ==
  { r \in rows : \A m \in matched : m.user_email # r.user_email }

\* The delete loop: every matched row with an id is deleted.
DeleteMatched(rows, matched) ==
  { r \in rows : \A m \in matched : m.id # r.id }

\* The mutated catch: a unique-constraint violation is thrown on to the
\* handler's outer catch, which answers 500.
CatchInsertErrorRethrow(error) ==
  IF error = "UNIQUE constraint failed" THEN "throw" ELSE "continue"

\* The catch around createFlight: a unique-constraint violation and any other
\* error are logged and the loop continues.
CatchInsertError(error) ==
  IF error = "UNIQUE constraint failed" THEN "continue" ELSE "continue"

\* The deletes of a replacement and the insert of the candidate f, on the
\* handler's working state h = [rows, nextId, savedFlights, events, thrown].
WriteFlight(h, f, decision, matched, fault) ==
  LET raced == fault = "race" /\ FullKey(f) /\ ~UniqueIndexHit(h.rows, f)
      rows0 == IF raced THEN h.rows \cup {Row(h.nextId, f)} ELSE h.rows
      id0 == IF raced THEN h.nextId + 1 ELSE h.nextId
      rows1 == IF decision = "replace" THEN DeleteMatched(rows0, matched)
               ELSE rows0
      ins == createFlight(rows1, id0, f,
                          IF fault = "race" THEN "none" ELSE fault)
      result == IF ins.ok THEN "saved"
                ELSE IF ins.error = "UNIQUE constraint failed" THEN "unique"
                ELSE "error"
      struck == IF raced THEN "race"
                ELSE IF ~ins.ok /\ ins.error = fault THEN fault
                ELSE "none"
  IN [ rows |-> ins.rows,
       nextId |-> IF ins.ok THEN id0 + 1 ELSE id0,
       savedFlights |-> IF ins.ok THEN Append(h.savedFlights, Row(id0, f))
                        ELSE h.savedFlights,
       events |-> Append(h.events,
                         Event(f, decision, result, matched, struck, h.rows,
                               ins.rows)),
       thrown |-> ~ins.ok /\ CatchInsertError(ins.error) = "throw" ]

\* The mutated pass: the exact-duplicate check is left out.
ReconcileFlightNoDuplicateCheck(h, f, fault) ==
  LET existingFlights == findFlightChange(QueryRows(h.rows, h.savedFlights), f)
  IN IF existingFlights = {} THEN WriteFlight(h, f, "insert", {}, fault)
     ELSE IF shouldReplace(parseEmailSentDate(f.email_sent_date),
                           ExistingTimestamps(existingFlights))
       THEN WriteFlight(h, f, "replace", existingFlights, fault)
     ELSE [h EXCEPT !.events =
             Append(@, Event(f, "stale", "skipped", existingFlights, "none",
                             h.rows, h.rows))]

\* One pass of the inner loop for the candidate f: exact-duplicate check,
\* change detection, supersession decision, deletes and insert.
ReconcileFlight(h, f, fault) ==
  LET visible == QueryRows(h.rows, h.savedFlights)
      exactDuplicate == findExactDuplicate(visible, f)
      existingFlights == findFlightChange(visible, f)
      skip(d) ==
        [h EXCEPT !.events =
           Append(@, Event(f, d, "skipped", existingFlights, "none", h.rows,
                           h.rows))]
  IN IF exactDuplicate # {} THEN skip("duplicate")
     ELSE IF existingFlights = {} THEN WriteFlight(h, f, "insert", {}, fault)
     ELSE IF shouldReplace(parseEmailSentDate(f.email_sent_date),
                           ExistingTimestamps(existingFlights))
       THEN WriteFlight(h, f, "replace", existingFlights, fault)
     ELSE skip("stale")

\* The inner loop over the flights of one email; faults[k] is what happens
\* at the insert of flight k, if it gets that far.
RECURSIVE ReconcileFlights(_, _, _, _)
ReconcileFlights(h, userEmail, flights, faults) ==
  IF flights = <<>> \/ h.thrown THEN h
  ELSE ReconcileFlights(
         ReconcileFlight(h, FlightRecord(userEmail, Head(flights)), Head(faults)),
         userEmail, Tail(flights), Tail(faults))

\* Emails the requests in flight or answered were given, over all slots.
Fetched == req[1].limit + req[2].limit

\* POST /flights/scan of user u arrives and Gmail returns n messages, n one of
\* counts. With no message the handler answers at once. Requests that do not
\* overlap start only when no scan is running.
StartScan(r, u, counts, overlap) ==
  /\ req[r].pc = "idle"
  /\ overlap \/ \A q \in Reqs : ~Active(q)
  /\ \E n \in counts :
       req' = [req EXCEPT ![r] =
                 IF n = 0
                   THEN [IdleRequest EXCEPT !.pc = "done", !.user = u,
                                            !.status = 200]
                   ELSE [IdleRequest EXCEPT !.pc = "loop", !.user = u,
                                            !.limit = n,
                                            !.storeAtStart = store]]
  /\ UNCHANGED << store, nextId, rescans >>
  /\ UNCHANGED << chatVars, uiVars, extractVars, batchVars, queryVars, turnVars, interfaceVars >>

\* The same user posts /flights/scan again and Gmail returns the same
\* messages, whose extraction yields the same flights as in the last scan.
StartRescan(r) ==
  /\ req[r].pc = "done"
  /\ req[r].batch # <<>>
  /\ \A q \in Reqs : ~Active(q)
  /\ rescans > 0
  /\ rescans' = rescans - 1
  /\ req' = [req EXCEPT ![r] =
               [IdleRequest EXCEPT !.pc = "loop", !.user = req[r].user,
                                   !.limit = Len(req[r].batch),
                                   !.storeAtStart = store,
                                   !.replay = req[r].batch]]
  /\ UNCHANGED << store, nextId >>
  /\ UNCHANGED << chatVars, uiVars, extractVars, batchVars, queryVars, turnVars, interfaceVars >>

\* One turn of the outer loop: `await parseFlightEmail(emailInput)` resolves
\* with the flights of the next email (one of inbox, or the same as in the
\* scan that is repeated), and every one of them is reconciled before the
\* handler awaits again. After the last email the response is sent in the
\* same turn. faults[k] is what happens at the insert of flight k.
ProcessEmail(r, x, faults) ==
  LET s == req[r]
      h0 == [ rows |-> store, nextId |-> nextId,
              savedFlights |-> s.savedFlights, events |-> s.events,
              thrown |-> FALSE ]
      h == ReconcileFlights(h0, s.user, x, faults)
      last == s.scanned + 1 = s.limit
  IN /\ \A k \in 1..Len(x) :
          faults[k] # "none" =>
            /\ Len(h.events) >= Len(s.events) + k
            /\ h.events[Len(s.events) + k].fault = faults[k]
     /\ store' = h.rows
     /\ nextId' = h.nextId
     /\ req' = [req EXCEPT ![r] =
                  [s EXCEPT !.scanned = @ + 1,
                            !.parsedCount = @ + Len(x),
                            !.batch = Append(@, x),
                            !.savedFlights = h.savedFlights,
                            !.events = h.events,
                            !.pc = IF h.thrown \/ last THEN "done" ELSE @,
                            !.status = IF h.thrown THEN 500
                                       ELSE IF last THEN 200 ELSE @]]

\* The turn for an email whose extraction resolved with one of inbox.
ScanEmail(r, inbox, faultSet) ==
  /\ req[r].pc = "loop"
  /\ LET s == req[r]
     IN \E x \in (IF s.replay # <<>> THEN {s.replay[s.scanned + 1]} ELSE inbox) :
          \E faults \in [1..Len(x) -> faultSet] : ProcessEmail(r, x, faults)
  /\ UNCHANGED rescans
  /\ UNCHANGED << chatVars, uiVars, extractVars, batchVars, queryVars, turnVars, interfaceVars >>

(***************************************************************************)
(* The chat turn: chat() and parseGlobeFocusBlock                          *)
(***************************************************************************)

\* const maxIterations = 5
maxIterations == 5

\* Tool calls one response of the backend requests at most.
MaxToolCalls == 2

\* Length of a response's content, in tokens.
MaxContent == 3

\* A string is a sequence of tokens: a word, white space, and the two tags.
Tokens == {"text", " ", "<globe_focus>", "</globe_focus>"}

RECURSIVE SeqsUpTo(_, _)
SeqsUpTo(S, n) ==
  IF n = 0 THEN {<<>>}
  ELSE LET shorter == SeqsUpTo(S, n - 1)
       IN shorter \cup { Append(q, x) : q \in { t \in shorter : Len(t) = n - 1 }, x \in S }

\* message.content of a response: null (the empty set) or a string (its
\* singleton).
Contents == {{}} \cup { {str} : str \in SeqsUpTo(Tokens, MaxContent) }

\* A requested tool call: a tool of the catalogue or not, with arguments that
\* are JSON or not.
ToolCalls ==
  [ name : {"getTotalFlights", "unknownTool"}, arguments : {"{}", "{"} ]

\* message.tool_calls of a response: a list, empty also for undefined.
ToolCallLists == SeqsUpTo(ToolCalls, MaxToolCalls)

\* message.tool_calls of the response the loop exits on: none or one call.
ExitToolCallLists ==
  { calls \in ToolCallLists :
      Len(calls) <= 1 /\ \A k \in 1..Len(calls) : calls[k].arguments = "{}" }

\* choices[0].finish_reason of a response.
FinishReasons == {"tool_calls", "stop"}

\* String.prototype.trim on a token sequence.
RECURSIVE Trim(_)
Trim(str) ==
  IF str = <<>> THEN str
  ELSE IF Head(str) = " " THEN Trim(Tail(str))
  ELSE IF str[Len(str)] = " " THEN Trim(SubSeq(str, 1, Len(str) - 1))
  ELSE str

\* response.choices[0]?.message?.content ?? 'Sorry, I could not process
\* your request.'
FinalMessageRaw(content) ==
  IF content = {} THEN <<"Sorry, I could not process your request.">>
  ELSE CHOOSE str \in content : TRUE

\* Length of the content of a response that carries focus directives.
MaxFocusContent == 4

\* JSON texts a directive block can carry: the three modes, a mode outside
\* them, a JSON value that is no object, and a text that is no JSON.
FocusAll == "{\"mode\":\"all\"}"

FocusFlights ==
  "{\"mode\":\"flights\",\"flights\":[{\"id\":7,\"departure_airport\":\"SFO\",\"arrival_airport\":\"LAX\",\"flight_date\":\"2024-05-10\"},{\"departure_airport\":\"SFO\"}]}"

FocusAirports ==
  "{\"mode\":\"airports\",\"airports\":[{\"code\":\"sfo\"},{\"airport\":\"lax\",\"name\":\"Los Angeles\"},{\"city\":\"Nowhere\"}]}"

FocusBadMode == "{\"mode\":\"globe\"}"

FocusNumber == "42"

FocusBrokenJson == "{\"mode\":"

Payloads ==
  {FocusAll, FocusFlights, FocusAirports, FocusBadMode, FocusNumber, FocusBrokenJson}

FocusTokens == Tokens \cup Payloads

\* message.content of a response that can carry directive blocks.
FocusContents == { {str} : str \in SeqsUpTo(FocusTokens, MaxFocusContent) }

FlightEntry(id, dep, arr, date) ==
  [id |-> id, departure_airport |-> dep, arrival_airport |-> arr, flight_date |-> date]

AirportEntry(code, airport, city, name) ==
  [code |-> code, airport |-> airport, city |-> city, name |-> name]

JsonValue(type, mode, flights, airports) ==
  [type |-> type, mode |-> mode, flights |-> flights, airports |-> airports]

\* The value JSON.parse returns for each text that is one JSON object.
JsonObjects ==
  FocusAll :> JsonValue("object", "all", <<>>, <<>>)
  @@ FocusFlights :>
       JsonValue("object", "flights",
                 << FlightEntry("7", "SFO", "LAX", "2024-05-10"),
                    FlightEntry(NULL, "SFO", NULL, NULL) >>, <<>>)
  @@ FocusAirports :>
       JsonValue("object", "airports", <<>>,
                 << AirportEntry("sfo", NULL, NULL, NULL),
                    AirportEntry(NULL, "lax", NULL, "Los Angeles"),
                    AirportEntry(NULL, NULL, "Nowhere", NULL) >>)
  @@ FocusBadMode :> JsonValue("object", "globe", <<>>, <<>>)

\* JSON.parse(jsonText): the value (its singleton), or nothing when it
\* throws. Digits that follow each other are one number.
JSONparse(jsonText) ==
  IF jsonText # <<>> /\ \A k \in 1..Len(jsonText) : jsonText[k] = FocusNumber
    THEN {JsonValue("number", NULL, <<>>, <<>>)}
  ELSE IF Len(jsonText) = 1 /\ jsonText[1] \in DOMAIN JsonObjects
    THEN {JsonObjects[jsonText[1]]}
  ELSE {}

\* The mutated mode check: every mode passes.
isValidGlobeFocusModeAny(mode) == TRUE

isValidGlobeFocusMode(mode) == mode \in {"all", "flights", "airports"}

\* String.prototype.toUpperCase on the airport codes of the payloads.
ToUpperCase(code) ==
  IF code = "sfo" THEN "SFO" ELSE IF code = "lax" THEN "LAX" ELSE code

\* parsed.flights.map(sanitizeFlightEntry).filter(not null)
RECURSIVE sanitizeFlightEntries(_)
sanitizeFlightEntries(entries) ==
  IF entries = <<>> THEN <<>>
  ELSE LET flight == Head(entries)
           rest == sanitizeFlightEntries(Tail(entries))
       IN IF \/ flight.departure_airport = NULL
             \/ flight.arrival_airport = NULL
             \/ flight.flight_date = NULL
            THEN rest
            ELSE <<flight>> \o rest

\* parsed.airports.map(sanitizeAirportEntry).filter(not null).map(upper case)
RECURSIVE sanitizeAirportEntries(_)
sanitizeAirportEntries(entries) ==
  IF entries = <<>> THEN <<>>
  ELSE LET entry == Head(entries)
           rest == sanitizeAirportEntries(Tail(entries))
           code == IF entry.code # NULL THEN entry.code ELSE entry.airport
           city == IF entry.city # NULL THEN entry.city ELSE entry.name
       IN IF code = NULL THEN rest
          ELSE <<[code |-> ToUpperCase(code), city |-> city]>> \o rest

\* focusRegex.exec(content): the first <globe_focus> that a </globe_focus>
\* follows, up to the first such closing tag; no match is the empty set.
FocusMatch(content) ==
  LET opens == { i \in 1..Len(content) :
                   /\ content[i] = "<globe_focus>"
                   /\ \E j \in (i + 1)..Len(content) : content[j] = "</globe_focus>" }
  IN IF opens = {} THEN {}
     ELSE LET i == CHOOSE a \in opens : \A b \in opens : a <= b
              closes == { j \in (i + 1)..Len(content) : content[j] = "</globe_focus>" }
              j == CHOOSE a \in closes : \A b \in closes : a <= b
          IN {[index |-> i, last |-> j, inner |-> SubSeq(content, i + 1, j - 1)]}

\* The sanitized payload of a parsed value: its singleton, or nothing when
\* the value is no object with a valid mode.
SanitizedFocus(parsedValues) ==
  IF parsedValues = {} THEN {}
  ELSE LET parsed == CHOOSE v \in parsedValues : TRUE
       IN IF parsed.type = "object" /\ isValidGlobeFocusMode(parsed.mode)
            THEN {[ mode |-> parsed.mode,
                    flights |-> IF parsed.mode = "flights"
                                  THEN sanitizeFlightEntries(parsed.flights)
                                  ELSE <<>>,
                    airports |-> IF parsed.mode = "airports"
                                   THEN sanitizeAirportEntries(parsed.airports)
                                   ELSE <<>> ]}
            ELSE {}

\* parseGlobeFocusBlock: the matched block is cut out and the rest trimmed;
\* the block's text is parsed and sanitized, and a text that does not parse
\* or validate leaves focus undefined (the empty set). Without a block the
\* content is returned as it is.
parseGlobeFocusBlock(content) ==
  IF FocusMatch(content) = {}
    THEN [cleanedContent |-> content, hasFocusBlock |-> FALSE, focus |-> {}]
  ELSE LET match == CHOOSE m \in FocusMatch(content) : TRUE
       IN [ cleanedContent |->
              Trim(SubSeq(content, 1, match.index - 1)
                     \o SubSeq(content, match.last + 1, Len(content))),
            hasFocusBlock |-> TRUE,
            focus |-> SanitizedFocus(JSONparse(Trim(match.inner))) ]

\* A tool call the loop body executes without throwing: JSON.parse accepts
\* the arguments and executeTool knows the tool.
Executes(toolCall) ==
  toolCall.arguments = "{}" /\ toolCall.name = "getTotalFlights"

NoError == [kind |-> "none", at |-> 0]

\* The mutated loop: a call of an unknown tool is passed over.
RECURSIVE RunToolCallsSkipUnknown(_, _)
RunToolCallsSkipUnknown(calls, k) ==
  IF k > Len(calls) THEN [executed |-> <<>>, error |-> NoError]
  ELSE IF calls[k].arguments # "{}"
    THEN [executed |-> <<>>, error |-> [kind |-> "SyntaxError", at |-> k]]
  ELSE LET rest == RunToolCallsSkipUnknown(calls, k + 1)
       IN IF calls[k].name = "unknownTool" THEN rest
          ELSE [rest EXCEPT !.executed = <<calls[k].name>> \o @]

\* for (const toolCall of assistantMessage.tool_calls), from call k on:
\* JSON.parse of the arguments, then executeTool, which throws for a name
\* outside the catalogue. The tools executed and recorded before the first
\* throw, and the error thrown, if any.
RECURSIVE RunToolCalls(_, _)
RunToolCalls(calls, k) ==
  IF k > Len(calls) THEN [executed |-> <<>>, error |-> NoError]
  ELSE IF calls[k].arguments # "{}"
    THEN [executed |-> <<>>, error |-> [kind |-> "SyntaxError", at |-> k]]
  ELSE IF calls[k].name = "unknownTool"
    THEN [executed |-> <<>>, error |-> [kind |-> "Unknown tool", at |-> k]]
  ELSE LET rest == RunToolCalls(calls, k + 1)
       IN [rest EXCEPT !.executed = <<calls[k].name>> \o @]

\* What a turn's backend can be seen to do: request an unknown tool in a
\* response the loop processes, request one in the response the loop exits
\* on, reject a call.
Observations ==
  {"unknown tool in round", "unknown tool at exit", "model call rejected"}

RequestsUnknownTool(calls) ==
  \E k \in 1..Len(calls) : calls[k].name = "unknownTool"

\* chat() is called: the system prompt and the user message are sent.
ChatStart ==
  /\ chatPc = "idle"
  /\ chatPc' = "awaiting"
  /\ iterations' = 0
  /\ messages' = <<"system", "user">>
  /\ toolCallsInfo' = <<>>
  /\ modelCalls' = 1
  /\ UNCHANGED << everyToolCalls, chatResponse, chatError, httpStatus, observed,
                  finalMessageRaw >>
  /\ UNCHANGED << scanVars, uiVars, extractVars, batchVars, queryVars, turnVars, interfaceVars >>

\* The backend answers with finish_reason 'tool_calls' and the tool calls
\* calls (one of lists), below the cap: one turn of the while loop. Every
\* requested call is executed and recorded, the results are appended and the
\* next request is sent; a call that throws rejects chat(), and the route
\* answers 500.
ChatIterate(lists) ==
  /\ chatPc = "awaiting"
  /\ iterations < maxIterations
  /\ \E calls \in lists :
       LET run == RunToolCalls(calls, 1)
           throws == run.error.kind # "none"
       IN /\ iterations' = iterations + 1
          /\ chatPc' = IF throws THEN "failed" ELSE "awaiting"
          /\ toolCallsInfo' = toolCallsInfo \o run.executed
          /\ messages' =
               IF throws THEN Append(messages, "assistant")
               ELSE messages \o <<"assistant">> \o [k \in 1..Len(calls) |-> "tool"]
          /\ modelCalls' = IF throws THEN modelCalls ELSE modelCalls + 1
          /\ chatError' = run.error
          /\ httpStatus' = IF throws THEN 500 ELSE httpStatus
          /\ observed' = IF RequestsUnknownTool(calls)
                           THEN observed \cup {"unknown tool in round"}
                           ELSE observed
  /\ UNCHANGED << everyToolCalls, chatResponse, finalMessageRaw >>
  /\ UNCHANGED << scanVars, uiVars, extractVars, batchVars, queryVars, turnVars, interfaceVars >>

\* The loop ends: the backend answers with another finish_reason than
\* 'tool_calls', or the cap is reached. The content of that response (one of
\* contents), or the fallback for a null one, is cleaned of its focus block
\* and returned with the tools executed; the tool calls of that response are
\* not looked at. The route answers 200.
ChatAnswer(lists, contents) ==
  /\ chatPc = "awaiting"
  /\ \E finish_reason \in FinishReasons : \E content \in contents :
       \E calls \in lists :
         /\ ~(finish_reason = "tool_calls" /\ iterations < maxIterations)
         /\ everyToolCalls' = (everyToolCalls /\ finish_reason = "tool_calls")
         /\ chatResponse' =
              LET parsed == parseGlobeFocusBlock(FinalMessageRaw(content))
              IN [ content |-> parsed.cleanedContent,
                   hasFocusBlock |-> parsed.hasFocusBlock,
                   toolCalls |-> toolCallsInfo,
                   globeFocus |-> parsed.focus ]
         /\ finalMessageRaw' = FinalMessageRaw(content)
         /\ observed' = IF RequestsUnknownTool(calls)
                          THEN observed \cup {"unknown tool at exit"}
                          ELSE observed
  /\ chatPc' = "done"
  /\ httpStatus' = 200
  /\ UNCHANGED << iterations, messages, toolCallsInfo, modelCalls, chatError >>
  /\ UNCHANGED << scanVars, uiVars, extractVars, batchVars, queryVars, turnVars, interfaceVars >>

\* The mutated rejection: the call is made again.
ChatBackendFailsRetry ==
  /\ chatPc = "awaiting"
  /\ modelCalls <= maxIterations + 1
  /\ modelCalls' = modelCalls + 1
  /\ observed' = observed \cup {"model call rejected"}
  /\ UNCHANGED << chatPc, iterations, messages, toolCallsInfo, everyToolCalls,
                  chatResponse, chatError, httpStatus, finalMessageRaw >>
  /\ UNCHANGED << scanVars, uiVars, extractVars, batchVars, queryVars, turnVars, interfaceVars >>

\* `await create(...)` rejects: chat() rejects, there is no retry, and the
\* route answers 500.
ChatBackendFails ==
  /\ chatPc = "awaiting"
  /\ chatPc' = "failed"
  /\ chatError' = [kind |-> "APIError", at |-> 0]
  /\ httpStatus' = 500
  /\ observed' = observed \cup {"model call rejected"}
  /\ UNCHANGED << iterations, messages, toolCallsInfo, everyToolCalls,
                  chatResponse, modelCalls, finalMessageRaw >>
  /\ UNCHANGED << scanVars, uiVars, extractVars, batchVars, queryVars, turnVars, interfaceVars >>

(***************************************************************************)
(* Flight records that leave the backend                                   *)
(***************************************************************************)

\* sanitizeFlightRecord: the row without raw_email_content.
sanitizeFlightRecord(flight) ==
  [column \in DOMAIN flight \ {"raw_email_content"} |-> flight[column]]

\* executeTool for getFlightsByDateRange and getFlightsByAirport, over any
\* rows of the user the query selects: flights.map(sanitizeFlightRecord).
FlightToolResults(rows, userEmail) ==
  { sanitizeFlightRecord(row) : row \in { q \in rows : q.user_email = userEmail } }

\* getFlightsByUser: SELECT * FROM flights WHERE user_email = ?, as GET
\* /flights returns it.
getFlightsByUser(rows, userEmail) == { row \in rows : row.user_email = userEmail }

\* `flights: savedFlights` of the answer of a scan.
ScanResponseFlights(r) ==
  IF req[r].pc = "done" /\ req[r].status = 200
    THEN { req[r].savedFlights[k] : k \in 1..Len(req[r].savedFlights) }
    ELSE {}

(***************************************************************************)
(* parseFlightEmail on what the extraction call returns                    *)
(***************************************************************************)

\* Segments the extraction returns for one email.
MaxSegments == 2

\* The airport directory (airports.csv), by IATA code.
AirportDirectory == {"SFO", "LAX", "JFK"}

\* A string whose characters matter is the sequence of its characters.
UpperCaseChar(c) ==
  IF c = "s" THEN "S" ELSE IF c = "f" THEN "F" ELSE IF c = "o" THEN "O"
  ELSE IF c = "u" THEN "U" ELSE IF c = "a" THEN "A" ELSE IF c = "b" THEN "B"
  ELSE IF c = "c" THEN "C" ELSE c

toUpperCase(chars) == [k \in 1..Len(chars) |-> UpperCaseChar(chars[k])]

RECURSIVE Str(_)
Str(chars) == IF chars = <<>> THEN "" ELSE Head(chars) \o Str(Tail(chars))

\* airportService.getAirportByCode(code): the directory entry (its
\* singleton) or null.
getAirportByCode(chars) ==
  IF Str(toUpperCase(chars)) \in AirportDirectory THEN {Str(toUpperCase(chars))} ELSE {}

\* iata: (s ?? '').trim().toUpperCase(); an absent field is the empty set.
iata(field) ==
  IF field = {} THEN <<>> ELSE toUpperCase(Trim(CHOOSE chars \in field : TRUE))

\* Airport codes as the extraction returns them: absent, upper case, lower
\* case in white space, two and four letters, three letters that are no
\* airport.
RawDepartures ==
  { {}, {<<"S", "F", "O">>}, {<<" ", "s", "f", "o", " ">>}, {<<"S", "F">>},
    {<<"S", "F", "O", "X">>}, {<<"Q", "Q", "Q">>} }

RawArrivals == { {<<"L", "A", "X">>}, {<<"Q", "Q", "Q">>} }

\* Confirmation number and flight number as returned: absent, or in lower
\* case with white space.
RawBookings ==
  { <<{}, {}>>, <<{<<"a", "b", "c", "1">>}, {<<"u", "a", " ", "1">>}>> }

RawSegments ==
  { [ confirmationNumber |-> b[1], flightDateLocal |-> "2024-05-10",
      departureAirport |-> dep, arrivalAirport |-> arr, flightNumber |-> b[2] ] :
      b \in RawBookings, dep \in RawDepartures, arr \in RawArrivals }

\* The mutated normalization: the directory is not consulted.
normalizeFlightNoLookup(seg) ==
  LET code == iata(seg.departureAirport)
      arr == iata(seg.arrivalAirport)
  IN IF Len(code) # 3 \/ Len(arr) # 3 THEN {}
     ELSE {[ confirmationNumber |->
               IF seg.confirmationNumber = {} THEN NULL
               ELSE Str(toUpperCase(CHOOSE c \in seg.confirmationNumber : TRUE)),
             flightDate |-> seg.flightDateLocal,
             departureAirport |-> Str(code),
             arrivalAirport |-> Str(arr),
             flightNumber |->
               IF seg.flightNumber = {} THEN NULL
               ELSE Str(toUpperCase(SelectSeq(CHOOSE c \in seg.flightNumber : TRUE,
                                              LAMBDA c : c # " "))) ]}

\* normalizeFlight: null (the empty set) for a code that is not 3 characters
\* or not in the directory, else the segment with its codes, confirmation
\* number and flight number normalized.
normalizeFlight(seg) ==
  LET code == iata(seg.departureAirport)
      arr == iata(seg.arrivalAirport)
  IN IF Len(code) # 3 \/ Len(arr) # 3 THEN {}
     ELSE IF getAirportByCode(code) = {} THEN {}
     ELSE IF getAirportByCode(arr) = {} THEN {}
     ELSE {[ confirmationNumber |->
               IF seg.confirmationNumber = {} THEN NULL
               ELSE Str(toUpperCase(CHOOSE c \in seg.confirmationNumber : TRUE)),
             flightDate |-> seg.flightDateLocal,
             departureAirport |-> Str(code),
             arrivalAirport |-> Str(arr),
             flightNumber |->
               IF seg.flightNumber = {} THEN NULL
               ELSE Str(toUpperCase(SelectSeq(CHOOSE c \in seg.flightNumber : TRUE,
                                              LAMBDA c : c # " "))) ]}

\* parsed.flights.map(normalizeFlight).filter(f => f !== null)
RECURSIVE Normalized(_)
Normalized(flights) ==
  IF flights = <<>> THEN <<>>
  ELSE LET f == normalizeFlight(Head(flights))
       IN (IF f = {} THEN <<>> ELSE <<CHOOSE n \in f : TRUE>>) \o Normalized(Tail(flights))

\* Errors the extraction call can reject with: an HTTP status (0 for none)
\* and an error code.
ApiError(status, code) == [status |-> status, code |-> code]

NoApiError == ApiError(0, NULL)

ExtractionErrors ==
  { ApiError(429, NULL), ApiError(500, NULL), ApiError(503, NULL),
    ApiError(400, NULL), ApiError(0, "ECONNRESET"), ApiError(0, "ERR_PARSE") }

\* What `await getOpenAI().beta.chat.completions.parse(...)` does for an
\* email: it rejects with an error, or resolves with message.parsed: null (the
\* empty set) or an extraction with isValid and flights.
ExtractionOutcome(rejects, error, parsed) ==
  [rejects |-> rejects, error |-> error, parsed |-> parsed]

ExtractionOutcomes ==
  { ExtractionOutcome(TRUE, e, {}) : e \in ExtractionErrors }
    \cup { ExtractionOutcome(FALSE, NoApiError, {}) }
    \cup { ExtractionOutcome(FALSE, NoApiError, {[isValid |-> v, flights |-> fl]}) :
             v \in BOOLEAN,
             fl \in { q \in SeqsUpTo(RawSegments, MaxSegments) :
                        \A k \in 2..Len(q) :
                          /\ q[k].confirmationNumber = q[1].confirmationNumber
                          /\ q[k].confirmationNumber # {}
                          /\ q[k].arrivalAirport = q[1].arrivalAirport } }

\* The mutated function: isValid is not looked at.
parseFlightEmailIgnoresIsValid(msg, outcome) ==
  IF outcome.rejects \/ outcome.parsed = {} THEN <<>>
  ELSE EnrichedFlights(Normalized((CHOOSE p \in outcome.parsed : TRUE).flights), msg)

\* parseFlightEmail(email) for the Gmail message msg: the flights it
\* resolves with. It never rejects: every error is caught and gives [].
parseFlightEmail(msg, outcome) ==
  IF outcome.rejects THEN <<>>
  ELSE IF outcome.parsed = {} THEN <<>>
  ELSE LET parsed == CHOOSE p \in outcome.parsed : TRUE
       IN IF ~parsed.isValid \/ Len(parsed.flights) = 0 THEN <<>>
          ELSE EnrichedFlights(Normalized(parsed.flights), msg)

\* How an extraction call ended, and the number of segments it returned.
OutcomeKind(outcome) ==
  IF outcome.rejects THEN [kind |-> "rejected", returned |-> 0]
  ELSE IF outcome.parsed = {} THEN [kind |-> "null", returned |-> 0]
  ELSE LET parsed == CHOOSE p \in outcome.parsed : TRUE
       IN [ kind |-> IF ~parsed.isValid THEN "invalid"
                     ELSE IF parsed.flights = <<>> THEN "empty" ELSE "segments",
            returned |-> Len(parsed.flights) ]

\* The extraction call parseFlightEmail awaits for the next email of the
\* scan settles: it does one of outcomes.
ExtractionSettles(r, outcomes) ==
  /\ req[r].pc = "loop"
  /\ req[r].replay = <<>>
  /\ extraction[r] = {}
  /\ \E outcome \in outcomes : extraction' = [extraction EXCEPT ![r] = {outcome}]
  /\ UNCHANGED extracted
  /\ UNCHANGED << scanVars, chatVars, uiVars, batchVars, queryVars, turnVars, interfaceVars >>

\* The turn of the outer loop for an email (one of msgs) whose extraction
\* call has settled: parseFlightEmail resolves and its flights are reconciled.
ScanRawEmail(r, msgs) ==
  /\ req[r].pc = "loop"
  /\ extraction[r] # {}
  /\ \E msg \in msgs :
       LET x == parseFlightEmail(msg, CHOOSE outcome \in extraction[r] : TRUE)
       IN ProcessEmail(r, x, [k \in 1..Len(x) |-> "none"])
  /\ extraction' = [extraction EXCEPT ![r] = {}]
  /\ extracted' = [extracted EXCEPT ![r] =
                     Append(@, OutcomeKind(CHOOSE outcome \in extraction[r] : TRUE))]
  /\ UNCHANGED rescans
  /\ UNCHANGED << chatVars, uiVars, batchVars, queryVars, turnVars, interfaceVars >>

ExtractInit ==
  /\ extraction = [r \in Reqs |-> {}]
  /\ extracted = [r \in Reqs |-> <<>>]

(***************************************************************************)
(* parseFlightEmails: the batch extraction with pLimit and retry           *)
(***************************************************************************)

\* Emails of one batch.
MaxBatchEmails == 4

\* pLimit(3)
concurrency == 3

\* retry(..., { retries: 3, delay: 1000 })
retries == 3

retryDelay == 1000

\* Email k of the batch.
BatchMessage(k) == [id |-> "msg-" \o ToString(k), sentDate |-> NULL]

\* The position in the batch of the email with this id.
BatchIndex(id) == CHOOSE k \in 1..(MaxBatchEmails + 1) : BatchMessage(k).id = id

RawSfoLax ==
  [ confirmationNumber |-> {<<"a", "b", "c", "1">>}, flightDateLocal |-> "2024-05-10",
    departureAirport |-> {<<"S", "F", "O">>}, arrivalAirport |-> {<<"L", "A", "X">>},
    flightNumber |-> {<<"u", "a", " ", "1">>} ]

\* What the extraction call of an email of the batch can do: reject with an
\* error, or return one or two segments.
BatchOutcomes ==
  { ExtractionOutcome(TRUE, e, {}) : e \in ExtractionErrors }
    \cup { ExtractionOutcome(FALSE, NoApiError, {[isValid |-> TRUE, flights |-> fl]}) :
             fl \in { <<RawSfoLax>>, <<RawSfoLax, RawSfoLax>> } }

\* A task of the batch: queued in limit(), with its extraction call in
\* flight ("calling"), waiting to retry ("backoff"), or settled ("done",
\* "thrown"); the errors of its calls so far (NoApiError for a call that
\* resolved), the delays it waited, and the flights it resolved with.
Task(state, calls, delays, flights) ==
  [state |-> state, calls |-> calls, delays |-> delays, flights |-> flights]

\* The promise `parseFlightEmail(email)` as retry() sees it settle.
Settled(rejected, error, value) ==
  [rejected |-> rejected, error |-> error, value |-> value]

\* () => parseFlightEmail(email): it resolves whatever the extraction call
\* did.
parseFlightEmailPromise(msg, outcome) ==
  Settled(FALSE, NoApiError, parseFlightEmail(msg, outcome))

isRetryable(error) ==
  \/ error.status = 429
  \/ error.status >= 500 /\ error.status < 600
  \/ error.code = "ECONNRESET"

RECURSIVE Pow2(_)
Pow2(i) == IF i = 0 THEN 1 ELSE 2 * Pow2(i - 1)

\* One turn of the loop of retry(), i the calls made before this one: return
\* the value, throw the error, or wait and call again.
retry(settled, i) ==
  IF ~settled.rejected THEN [do |-> "return", delay |-> 0]
  ELSE IF ~isRetryable(settled.error) \/ i = retries THEN [do |-> "throw", delay |-> 0]
  ELSE [do |-> "wait", delay |-> retryDelay * Pow2(i)]

\* Tasks that hold a slot of the limit.
ActiveTasks(ts) == { k \in 1..Len(ts) : ts[k].state \in {"calling", "backoff"} }

\* The mutated limit: every queued task is started.
StartQueuedAll(ts) ==
  [k \in 1..Len(ts) |->
     IF ts[k].state = "queued" THEN [ts[k] EXCEPT !.state = "calling"] ELSE ts[k]]

\* pLimit: queued tasks are started in their order while fewer than
\* concurrency are active.
RECURSIVE StartQueued(_)
StartQueued(ts) ==
  LET queued == { k \in 1..Len(ts) : ts[k].state = "queued" }
  IN IF queued = {} \/ Cardinality(ActiveTasks(ts)) >= concurrency THEN ts
     ELSE LET k == CHOOSE a \in queued : \A c \in queued : a <= c
          IN StartQueued([ts EXCEPT ![k].state = "calling"])

\* flightsArrays.flat(): the flights of the tasks in the order of the emails.
RECURSIVE Flat(_)
Flat(ts) == IF ts = <<>> THEN <<>> ELSE Head(ts).flights \o Flat(Tail(ts))

\* parseFlightEmails(emails) is called with n emails, n one of counts: every
\* email is given to limit(), which starts the first tasks.
ParseFlightEmailsStart(counts) ==
  /\ batchPc = "idle"
  /\ \E n \in counts :
       tasks' = StartQueued([k \in 1..n |-> Task("queued", <<>>, <<>>, <<>>)])
  /\ batchPc' = "running"
  /\ UNCHANGED << batchFlights, overtaken >>
  /\ UNCHANGED << scanVars, chatVars, uiVars, extractVars, queryVars, turnVars, interfaceVars >>

\* The batch after task k has become ts[k]: a task that settled frees its
\* slot for the next queued one; a task that threw rejects Promise.all; when
\* every task has resolved, the flights are returned.
BatchStep(ts, k) ==
  LET started == IF ts[k].state \in {"done", "thrown"} THEN StartQueued(ts) ELSE ts
  IN /\ tasks' = started
     /\ batchPc' =
          IF batchPc = "rejected" \/ ts[k].state = "thrown" THEN "rejected"
          ELSE IF \A j \in 1..Len(started) : started[j].state = "done" THEN "resolved"
          ELSE batchPc
     /\ batchFlights' =
          IF batchPc # "rejected" /\ \A j \in 1..Len(started) : started[j].state = "done"
            THEN Flat(started) ELSE batchFlights
     /\ overtaken' =
          (overtaken \/ (ts[k].state = "done"
                           /\ \E j \in 1..(k - 1) : tasks[j].state = "calling"))

\* The extraction call of task k settles with one of outcomes:
\* parseFlightEmail resolves, and retry() returns, throws, or waits.
ExtractionCallSettles(outcomes) ==
  /\ batchPc \in {"running", "rejected"}
  /\ \E k \in 1..Len(tasks) : \E outcome \in outcomes :
       /\ tasks[k].state = "calling"
       /\ LET settled == parseFlightEmailPromise(BatchMessage(k), outcome)
              next == retry(settled, Len(tasks[k].calls))
              calls == Append(tasks[k].calls, outcome.error)
          IN BatchStep(
               [tasks EXCEPT ![k] =
                  IF next.do = "return"
                    THEN Task("done", calls, @.delays, settled.value)
                  ELSE IF next.do = "throw"
                    THEN Task("thrown", calls, @.delays, <<>>)
                  ELSE Task("backoff", calls, Append(@.delays, next.delay), <<>>)],
               k)
  /\ UNCHANGED << scanVars, chatVars, uiVars, extractVars, queryVars, turnVars, interfaceVars >>

\* The timer of a task that waits to retry fires: the extraction is called
\* again. No reachable state enables it: parseFlightEmail never rejects.
BackoffElapses ==
  /\ \E k \in 1..Len(tasks) :
       /\ tasks[k].state = "backoff"
       /\ tasks' = [tasks EXCEPT ![k].state = "calling"]
  /\ UNCHANGED << batchPc, batchFlights, overtaken >>
  /\ UNCHANGED << scanVars, chatVars, uiVars, extractVars, queryVars, turnVars, interfaceVars >>

BatchInit ==
  /\ batchPc = "idle"
  /\ tasks = <<>>
  /\ batchFlights = <<>>
  /\ overtaken = FALSE

(***************************************************************************)
(* DashboardPage: the focus of the globe after a chat response             *)
(***************************************************************************)

\* Tool invocations of a chat response the page looks at.
MaxUiToolCalls == 2

\* An element of a tool result, or of the directive's lists: the fields the
\* page reads, NULL for a field that is missing or no string.
Candidate(id, dep, arr, date, flightNumber, airport, code) ==
  [ id |-> id, departure_airport |-> dep, arrival_airport |-> arr,
    flight_date |-> date, flight_number |-> flightNumber,
    airport |-> airport, code |-> code ]

FlightSeven == Candidate("7", "SFO", "LAX", "2024-05-10", "UA100", NULL, NULL)

FlightNoId == Candidate(NULL, "JFK", "LAX", "2024-05-12", NULL, NULL, NULL)

NoFlight == Candidate("9", "SFO", NULL, NULL, NULL, NULL, NULL)

VisitSfo == Candidate(NULL, NULL, NULL, NULL, NULL, "sfo", NULL)

VisitLax == Candidate(NULL, NULL, NULL, NULL, NULL, NULL, "LAX")

\* result of a tool invocation: an array of elements, or a value that is no
\* array (the count of getTotalFlights).
ToolResultValues ==
  { [isArray |-> FALSE, items |-> <<>>] }
    \cup { [isArray |-> TRUE, items |-> items] :
             items \in { <<>>, <<FlightSeven>>, <<FlightSeven, FlightSeven>>,
                         <<FlightNoId, NoFlight>>, <<VisitSfo>>,
                         <<VisitLax, VisitSfo, VisitLax>> } }

UiTools ==
  {"getFlightsByDateRange", "getFlightsByAirport", "getAirportVisits", "getTotalFlights"}

UiToolCalls == [tool : UiTools, result : ToolResultValues]

\* response.globeFocus: undefined (the empty set) or a payload.
ApiGlobeFocuses ==
  {{}} \cup
  { {[mode |-> mode, flights |-> flights, airports |-> airports]} :
      mode \in {"all", "flights", "airports"},
      flights \in { <<>>, <<FlightSeven>> },
      airports \in { <<>>, <<[code |-> "", city |-> NULL]>>,
                     <<[code |-> "sfo", city |-> NULL], [code |-> "", city |-> NULL]>> } }

\* The chat responses the page can be handed.
ChatResponses ==
  [ globeFocus : ApiGlobeFocuses, toolCalls : SeqsUpTo(UiToolCalls, MaxUiToolCalls) ]

GlobeFocusOf(type, flights, airportCodes) ==
  [type |-> type, flights |-> flights, airportCodes |-> airportCodes]

isFlightResult(candidate) ==
  /\ candidate.departure_airport # NULL
  /\ candidate.arrival_airport # NULL
  /\ candidate.flight_date # NULL

\* extractAirportCode: the upper-cased airport, else code; the empty set for
\* null.
extractAirportCode(candidate) ==
  IF candidate.airport # NULL THEN {ToUpperCase(candidate.airport)}
  ELSE IF candidate.code # NULL THEN {ToUpperCase(candidate.code)}
  ELSE {}

\* airports.map(code upper-cased or null).filter(non-empty)
RECURSIVE ApiAirportCodes(_)
ApiAirportCodes(airports) ==
  IF airports = <<>> THEN <<>>
  ELSE IF Head(airports).code \in {NULL, ""} THEN ApiAirportCodes(Tail(airports))
  ELSE <<ToUpperCase(Head(airports).code)>> \o ApiAirportCodes(Tail(airports))

\* The mutated conversion: a mode is taken with an empty list as well.
convertApiGlobeFocusAnyList(apiFocus) ==
  IF apiFocus = {} THEN {}
  ELSE LET f == CHOOSE x \in apiFocus : TRUE
       IN IF f.mode = "all" THEN {GlobeFocusOf("all", <<>>, <<>>)}
          ELSE IF f.mode = "flights" THEN {GlobeFocusOf("flights", f.flights, <<>>)}
          ELSE {GlobeFocusOf("airports", <<>>, ApiAirportCodes(f.airports))}

\* convertApiGlobeFocus: the focus of the directive, null (the empty set)
\* when there is none or its list is empty.
convertApiGlobeFocus(apiFocus) ==
  IF apiFocus = {} THEN {}
  ELSE LET f == CHOOSE x \in apiFocus : TRUE
       IN IF f.mode = "all" THEN {GlobeFocusOf("all", <<>>, <<>>)}
          ELSE IF f.mode = "flights" /\ Len(f.flights) > 0
            THEN {GlobeFocusOf("flights", f.flights, <<>>)}
          ELSE IF /\ f.mode = "airports" /\ Len(f.airports) > 0
                  /\ Len(ApiAirportCodes(f.airports)) > 0
            THEN {GlobeFocusOf("airports", <<>>, ApiAirportCodes(f.airports))}
          ELSE {}

\* The loop over toolCalls: the flight elements of the results of the two
\* flight tools, in order.
RECURSIVE CollectFlights(_)
CollectFlights(toolCalls) ==
  IF toolCalls = <<>> THEN <<>>
  ELSE LET toolCall == Head(toolCalls)
           found ==
             IF /\ toolCall.tool \in {"getFlightsByDateRange", "getFlightsByAirport"}
                /\ toolCall.result.isArray
               THEN SelectSeq(toolCall.result.items, isFlightResult)
               ELSE <<>>
       IN found \o CollectFlights(Tail(toolCalls))

\* The candidates of the getAirportVisits results, in order.
RECURSIVE CollectVisits(_)
CollectVisits(toolCalls) ==
  IF toolCalls = <<>> THEN <<>>
  ELSE LET toolCall == Head(toolCalls)
           found == IF toolCall.tool = "getAirportVisits" /\ toolCall.result.isArray
                      THEN toolCall.result.items ELSE <<>>
       IN found \o CollectVisits(Tail(toolCalls))

\* The key of uniqueFlights: the id, or the route, date and flight number.
UniqueFlightKey(flight) ==
  IF flight.id # NULL THEN <<"id", flight.id>>
  ELSE << flight.departure_airport, flight.arrival_airport, flight.flight_date,
          IF flight.flight_number = NULL THEN "" ELSE flight.flight_number >>

\* Map and Set keep the first occurrence of a key, in insertion order.
RECURSIVE FirstOfEachKey(_, _)
FirstOfEachKey(items, seen) ==
  IF items = <<>> THEN <<>>
  ELSE IF Head(items)[1] \in seen THEN FirstOfEachKey(Tail(items), seen)
  ELSE <<Head(items)[2]>> \o FirstOfEachKey(Tail(items), seen \cup {Head(items)[1]})

\* airportCodes.add(code) for every candidate with a code.
RECURSIVE VisitCodes(_)
VisitCodes(candidates) ==
  IF candidates = <<>> THEN <<>>
  ELSE LET code == extractAirportCode(Head(candidates))
       IN IF code = {} \/ code = {""} THEN VisitCodes(Tail(candidates))
          ELSE <<CHOOSE c \in code : TRUE>> \o VisitCodes(Tail(candidates))

\* extractGlobeFocusFromTools: flights win over airports; null (the empty
\* set) without either.
extractGlobeFocusFromTools(toolCalls) ==
  LET flights == CollectFlights(toolCalls)
      codes == VisitCodes(CollectVisits(toolCalls))
  IN IF Len(flights) > 0
       THEN {GlobeFocusOf("flights",
               FirstOfEachKey([k \in 1..Len(flights) |->
                                 <<UniqueFlightKey(flights[k]), flights[k]>>], {}),
               <<>>)}
     ELSE IF Len(codes) > 0
       THEN {GlobeFocusOf("airports", <<>>,
               FirstOfEachKey([k \in 1..Len(codes) |-> <<codes[k], codes[k]>>], {}))}
     ELSE {}

determineGlobeFocus(response) ==
  LET fromApi == convertApiGlobeFocus(response.globeFocus)
      fromTools == extractGlobeFocusFromTools(response.toolCalls)
  IN IF fromApi # {} THEN CHOOSE f \in fromApi : TRUE
     ELSE IF fromTools # {} THEN CHOOSE f \in fromTools : TRUE
     ELSE GlobeFocusOf("all", <<>>, <<>>)

\* handleChatResponse: setGlobeFocus(determineGlobeFocus(response))
handleChatResponse(responses) ==
  /\ \E response \in responses :
       /\ lastResponse' = {response}
       /\ globeFocus' = determineGlobeFocus(response)
  /\ UNCHANGED << scanVars, chatVars, extractVars, batchVars, queryVars, turnVars, interfaceVars >>

\* handleClearChat: setGlobeFocus({ type: 'all' })
handleClearChat ==
  /\ lastResponse # {}
  /\ lastResponse' = {}
  /\ globeFocus' = GlobeFocusOf("all", <<>>, <<>>)
  /\ UNCHANGED << scanVars, chatVars, extractVars, batchVars, queryVars, turnVars, interfaceVars >>

(***************************************************************************)
(* The query tools: db.service queries and executeTool                     *)
(***************************************************************************)

\* airports.csv: the municipality of an airport of the directory.
AirportCity(code) ==
  IF code = "SFO" THEN "San Francisco"
  ELSE IF code = "LAX" THEN "Los Angeles"
  ELSE IF code = "JFK" THEN "New York"
  ELSE NULL

\* The columns departure_city and arrival_city of a row: the handler stores
\* flight.departureCity and flight.arrivalCity, which normalizeFlight took
\* from the directory entries of the two codes.
departure_city(row) == AirportCity(row.departure_airport)

arrival_city(row) == AirportCity(row.arrival_airport)

\* The column airline of a row: the extraction of the modelled emails names
\* no airline.
airline(row) == NULL

\* strftime('%Y', flight_date) on the dates of the model.
strftimeYear(date) ==
  IF date = "2023-12-31" THEN "2023"
  ELSE IF date \in {"2024-05-10", "2024-05-12"} THEN "2024"
  ELSE NULL

\* The rank of a date string in SQLite's text comparison.
DateRank(date) ==
  IF date = "2023-12-31" THEN 1
  ELSE IF date = "2024-01-01" THEN 2
  ELSE IF date = "2024-05-10" THEN 3
  ELSE IF date = "2024-05-12" THEN 4
  ELSE 5

\* A one-segment email without booking keys on a route of the directory.
Leg(dep, arr, date) ==
  [Segment(<<NULL, NULL>>, date) EXCEPT !.departureAirport = dep,
                                        !.arrivalAirport = arr]

\* What the extraction of an email resolves to in a deployment whose users
\* query their flights: one leg, in an email whose Gmail id both users have.
QueryInbox ==
  { EnrichedFlights(<<Leg(route[1], route[2], date)>>, msg) :
      route \in {<<"SFO", "LAX">>, <<"LAX", "JFK">>},
      date \in {"2023-12-31", "2024-05-10"},
      msg \in Mailbox("other@example.com") }

\* A `year` argument as JSON.parse returns it: a number or a string, as the
\* pieces the template literal `${year}` is made of.
YearNumber(digits) == [type |-> "number", tokens |-> <<digits>>]

YearString(tokens) == [type |-> "string", tokens |-> tokens]

\* A string that closes the SQL literal and adds a disjunct that is true.
OrTrue == "' OR '1'='1"

YearArguments ==
  { {}, {YearNumber("0")}, {YearNumber("2023")}, {YearNumber("2024")},
    {YearString(<<"2024">>)}, {YearString(<<"2024", OrTrue>>)} }

\* if (year): 0, the empty string and an absent argument are falsy.
Truthy(year) ==
  /\ year # {}
  /\ \A y \in year : y.tokens # <<>> /\ ~(y.type = "number" /\ y.tokens = <<"0">>)

\* getFlightsByDateRange: user_email = ? AND flight_date BETWEEN ? AND ?
getFlightsByDateRange(rows, userEmail, startDate, endDate) ==
  { row \in rows :
      /\ row.user_email = userEmail
      /\ DateRank(startDate) <= DateRank(row.flight_date)
      /\ DateRank(row.flight_date) <= DateRank(endDate) }

\* The WHERE clause of the two SELECTs of getAirportVisits, with '${year}'
\* put into the text of the query: AND binds tighter than OR.
AirportVisitsWhere(row, userEmail, year) ==
  IF ~Truthy(year) THEN row.user_email = userEmail
  ELSE LET y == CHOOSE v \in year : TRUE
       IN \/ /\ row.user_email = userEmail
             /\ strftimeYear(row.flight_date) = Head(y.tokens)
          \/ Len(y.tokens) > 1 /\ y.tokens[2] = OrTrue

\* The mutated query: UNION ALL keeps every row of both SELECTs.
getAirportVisitsUnionAll(rows, userEmail, year) ==
  LET selected == { row \in rows : AirportVisitsWhere(row, userEmail, year) }
  IN SetToBag({ [airport |-> row.departure_airport, city |-> departure_city(row)] :
                  row \in selected })
       (+) SetToBag({ [airport |-> row.arrival_airport, city |-> arrival_city(row)] :
                        row \in selected })

\* getAirportVisits: SELECT DISTINCT departure_airport, departure_city ...
\* UNION SELECT DISTINCT arrival_airport, arrival_city ...; the result rows
\* as a bag.
getAirportVisits(rows, userEmail, year) ==
  LET selected == { row \in rows : AirportVisitsWhere(row, userEmail, year) }
  IN SetToBag({ [airport |-> row.departure_airport, city |-> departure_city(row)] :
                  row \in selected }
                \cup { [airport |-> row.arrival_airport, city |-> arrival_city(row)] :
                         row \in selected })

\* getTotalFlights: COUNT(*) with year.toString() bound to the parameter.
getTotalFlights(rows, userEmail, year) ==
  Cardinality({ row \in rows :
                  /\ row.user_email = userEmail
                  /\ Truthy(year) =>
                       LET y == CHOOSE v \in year : TRUE
                       IN Len(y.tokens) = 1
                            /\ strftimeYear(row.flight_date) = Head(y.tokens) })

\* getFlightsByAirport: user_email = ? AND (departure_airport = ? OR
\* arrival_airport = ?)
getFlightsByAirport(rows, userEmail, airportCode) ==
  { row \in rows :
      /\ row.user_email = userEmail
      /\ row.departure_airport = airportCode \/ row.arrival_airport = airportCode }

\* getAirlineStats: airline and COUNT(*) of the rows of the user whose
\* airline is not NULL, grouped by airline.
getAirlineStats(rows, userEmail) ==
  LET named == { row \in rows : row.user_email = userEmail /\ airline(row) # NULL }
  IN { [airline |-> airline(row),
        count |-> Cardinality({ q \in named : airline(q) = airline(row) })] :
         row \in named }

\* getEmailBodies: message id, sent date and body of the rows of the user
\* whose message id is one of those asked for.
getEmailBodies(rows, userEmail, emailMessageIds) ==
  { [ email_message_id |-> row.email_message_id,
      email_sent_date |-> row.email_sent_date,
      raw_email_content |-> row.raw_email_content ] :
      row \in { q \in rows :
                  /\ q.user_email = userEmail
                  /\ \E k \in 1..Len(emailMessageIds) :
                       q.email_message_id = emailMessageIds[k] } }

\* A tool call of the model with its parsed arguments; an argument the tool
\* does not take is absent.
ToolInvocation(name, startDate, endDate, year, airportCode, emailMessageIds) ==
  [ name |-> name, startDate |-> startDate, endDate |-> endDate, year |-> year,
    airportCode |-> airportCode, emailMessageIds |-> emailMessageIds ]

ToolInvocations ==
  { ToolInvocation("getFlightsByDateRange", "2024-01-01", "2024-05-10", {}, {}, <<>>),
    ToolInvocation("getFlightsByAirport", NULL, NULL, {}, {<<"s", "f", "o">>}, <<>>),
    ToolInvocation("getAirlineStats", NULL, NULL, {}, {}, <<>>),
    ToolInvocation("getEmailBodies", NULL, NULL, {}, {}, <<"msg-old">>) }
    \cup { ToolInvocation(name, NULL, NULL, year, {}, <<>>) :
             name \in {"getAirportVisits", "getTotalFlights"},
             year \in YearArguments }

\* executeTool(toolName, args, userEmail) on the rows of the table.
executeTool(call, userEmail, rows) ==
  IF call.name = "getFlightsByDateRange"
    THEN { sanitizeFlightRecord(row) :
             row \in getFlightsByDateRange(rows, userEmail, call.startDate,
                                           call.endDate) }
  ELSE IF call.name = "getAirportVisits"
    THEN getAirportVisits(rows, userEmail, call.year)
  ELSE IF call.name = "getTotalFlights"
    THEN [ total |-> getTotalFlights(rows, userEmail, call.year),
           year |-> IF call.year = {} THEN {"all time"} ELSE call.year ]
  ELSE IF call.name = "getFlightsByAirport"
    THEN { sanitizeFlightRecord(row) :
             row \in getFlightsByAirport(
                       rows, userEmail,
                       Str(toUpperCase(CHOOSE code \in call.airportCode : TRUE))) }
  ELSE IF call.name = "getAirlineStats"
    THEN getAirlineStats(rows, userEmail)
  ELSE getEmailBodies(rows, userEmail, call.emailMessageIds)

\* A chat turn of the user reaches a round of tool calls and executes one of
\* them on the table as it is.
ExecuteTool(users, calls) ==
  /\ toolRun = {}
  /\ \E u \in users, call \in calls :
       toolRun' = {[ user |-> u, call |-> call,
                     result |-> executeTool(call, u, store) ]}
  /\ UNCHANGED << scanVars, chatVars, uiVars, extractVars, batchVars, turnVars, interfaceVars >>

\* The result is put into the tool message of the round.
ToolReturns ==
  /\ toolRun # {}
  /\ toolRun' = {}
  /\ UNCHANGED << scanVars, chatVars, uiVars, extractVars, batchVars, turnVars, interfaceVars >>

QueryInit == toolRun = {}

(***************************************************************************)
(* The conversation of a chat turn: messages, tool results and the list    *)
(* of tool calls chat() returns                                            *)
(***************************************************************************)

\* JSON.parse(toolCall.function.arguments) for the argument texts of the
\* model, as the tool call executeTool is given.
ParseArguments(name, arguments) ==
  IF arguments = "{\"year\":2024}"
    THEN ToolInvocation(name, NULL, NULL, {YearNumber("2024")}, {}, <<>>)
  ELSE IF arguments = "{\"emailMessageIds\":[\"msg-old\"]}"
    THEN ToolInvocation(name, NULL, NULL, {}, {}, <<"msg-old">>)
  ELSE ToolInvocation(name, NULL, NULL, {}, {}, <<>>)

\* JSON.stringify(result): the text of a value.
JSONstringify(value) == [json |-> value]

\* The functions a response of the model asks for, in its order.
RequestedFunctions ==
  LET total == [name |-> "getTotalFlights", arguments |-> "{\"year\":2024}"]
      visits == [name |-> "getAirportVisits", arguments |-> "{}"]
      bodies == [ name |-> "getEmailBodies",
                  arguments |-> "{\"emailMessageIds\":[\"msg-old\"]}" ]
  IN { <<total>>, <<visits, total>>, <<total, bodies>> }

\* The n-th response of the backend in a turn: a final answer, or tool calls
\* with the ids the backend gives them. finish_reason is 'tool_calls' exactly
\* when the message has tool calls.
ModelResponses(n) ==
  { [finish_reason |-> "stop", tool_calls |-> <<>>] }
    \cup { [ finish_reason |-> "tool_calls",
             tool_calls |-> [ k \in 1..Len(functions) |->
                                [id |-> <<n, k>>, function |-> functions[k]] ] ] :
             functions \in RequestedFunctions }

Message(role, tool_calls, tool_call_id, content) ==
  [ role |-> role, tool_calls |-> tool_calls, tool_call_id |-> tool_call_id,
    content |-> content ]

IdleTurn ==
  [ pc |-> "idle", userEmail |-> NULL, messages |-> <<>>, iterations |-> 0,
    toolCallsInfo |-> <<>>, responses |-> <<>>, sent |-> <<>>,
    toolCalls |-> {} ]

\* The mutated loop condition: there is no cap.
LoopContinuesNoCap(response, rounds) ==
  response.finish_reason = "tool_calls"

\* while (response.choices[0]?.finish_reason === 'tool_calls' && iterations <
\* maxIterations)
LoopContinues(response, rounds) ==
  response.finish_reason = "tool_calls" /\ rounds < maxIterations

\* The mutated round: the calls are executed last to first.
ToolRoundBackwards(tool_calls, userEmail, rows) ==
  LET n == Len(tool_calls)
      result(k) ==
        executeTool(ParseArguments(tool_calls[k].function.name,
                                   tool_calls[k].function.arguments),
                    userEmail, rows)
  IN [ toolCallsInfo |->
         [ k \in 1..n |->
             [ tool |-> tool_calls[n + 1 - k].function.name,
               arguments |-> ParseArguments(tool_calls[n + 1 - k].function.name,
                                            tool_calls[n + 1 - k].function.arguments),
               result |-> result(n + 1 - k) ] ],
       toolResults |->
         [ k \in 1..n |->
             Message("tool", <<>>, {tool_calls[n + 1 - k].id},
                     JSONstringify(result(n + 1 - k))) ] ]

\* for (const toolCall of assistantMessage.tool_calls): what the round adds to
\* toolCallsInfo, and its toolResults.
ToolRound(tool_calls, userEmail, rows) ==
  LET result(k) ==
        executeTool(ParseArguments(tool_calls[k].function.name,
                                   tool_calls[k].function.arguments),
                    userEmail, rows)
  IN [ toolCallsInfo |->
         [ k \in 1..Len(tool_calls) |->
             [ tool |-> tool_calls[k].function.name,
               arguments |-> ParseArguments(tool_calls[k].function.name,
                                            tool_calls[k].function.arguments),
               result |-> result(k) ] ],
       toolResults |->
         [ k \in 1..Len(tool_calls) |->
             Message("tool", <<>>, {tool_calls[k].id}, JSONstringify(result(k))) ] ]

\* chat() is called for the user: the system prompt and the user message are
\* sent to the backend.
TurnStart(users) ==
  /\ turn.pc = "idle"
  /\ \E u \in users :
       turn' = [IdleTurn EXCEPT
                  !.pc = "awaiting", !.userEmail = u,
                  !.messages = << Message("system", <<>>, {}, "SYSTEM_PROMPT"),
                                  Message("user", <<>>, {}, "request.message") >>,
                  !.sent = <<2>>]
  /\ UNCHANGED << scanVars, chatVars, uiVars, extractVars, batchVars, queryVars, interfaceVars >>

\* The backend responds and the loop condition holds: the assistant message
\* is pushed, every tool call is executed on the table, tracked and answered
\* by a tool message, the tool messages are pushed and the next request is
\* sent.
TurnRound ==
  /\ turn.pc = "awaiting"
  /\ \E response \in ModelResponses(Len(turn.responses) + 1) :
       /\ LoopContinues(response, turn.iterations)
       /\ LET round == ToolRound(response.tool_calls, turn.userEmail, store)
              pushed == Append(turn.messages,
                               Message("assistant", response.tool_calls, {}, NULL))
                          \o round.toolResults
          IN turn' = [turn EXCEPT
                        !.iterations = @ + 1,
                        !.messages = pushed,
                        !.toolCallsInfo = @ \o round.toolCallsInfo,
                        !.responses = Append(@, response),
                        !.sent = Append(@, Len(pushed))]
  /\ UNCHANGED << scanVars, chatVars, uiVars, extractVars, batchVars, queryVars, interfaceVars >>

\* The backend responds and the loop condition does not hold: chat() returns
\* toolCallsInfo, or undefined for an empty one.
TurnExit ==
  /\ turn.pc = "awaiting"
  /\ \E response \in ModelResponses(Len(turn.responses) + 1) :
       /\ ~LoopContinues(response, turn.iterations)
       /\ turn' = [turn EXCEPT
                     !.pc = "done",
                     !.responses = Append(@, response),
                     !.toolCalls = IF Len(turn.toolCallsInfo) > 0
                                     THEN {turn.toolCallsInfo} ELSE {}]
  /\ UNCHANGED << scanVars, chatVars, uiVars, extractVars, batchVars, queryVars, interfaceVars >>

\* `await create(...)` rejects and chat() with it.
TurnRejects ==
  /\ turn.pc = "awaiting"
  /\ turn' = [turn EXCEPT !.pc = "failed"]
  /\ UNCHANGED << scanVars, chatVars, uiVars, extractVars, batchVars, queryVars, interfaceVars >>

TurnInit == turn = IdleTurn

(***************************************************************************)
(* ChatInterface: the message list, a chat request and an email scan       *)
(***************************************************************************)

\* Messages the chat interface holds at most.
MaxMessages == 4

ChatMessage(role, content) == [role |-> role, content |-> content]

\* The message handleScanEmails adds when a scan has completed.
ScanCompleteMessage == ChatMessage("assistant", "Email scan complete!")

\* prev.slice(0, -1): the list without its last element.
SliceOffLast(prev) == SubSeq(prev, 1, Len(prev) - 1)

\* The component after mounting, with what the model remembers of the
\* request in flight: the list when the message was sent, the messages added
\* since by others than the request, and how the last request ended.
MountedInterface ==
  [ messages |-> <<>>, isLoading |-> FALSE, isScanning |-> FALSE,
    error |-> NULL, beforeSend |-> <<>>, addedMeanwhile |-> <<>>,
    settled |-> "none" ]

\* handleSendMessage up to its await: the user message is appended and the
\* request is sent. The input is disabled while a request is loading.
handleSendMessage ==
  /\ ~chatInterface.isLoading
  /\ Len(chatInterface.messages) < MaxMessages
  /\ chatInterface' =
       [chatInterface EXCEPT
          !.messages = Append(@, ChatMessage("user", "message")),
          !.isLoading = TRUE,
          !.error = NULL,
          !.beforeSend = chatInterface.messages,
          !.addedMeanwhile = <<>>,
          !.settled = "none"]
  /\ UNCHANGED << scanVars, chatVars, uiVars, extractVars, batchVars, queryVars,
                  turnVars >>

\* apiClient.sendChatMessage resolves: the answer is appended.
SendChatMessageResolves ==
  /\ chatInterface.isLoading
  /\ chatInterface' =
       [chatInterface EXCEPT
          !.messages = Append(@, ChatMessage("assistant", "response.message")),
          !.isLoading = FALSE,
          !.settled = "answered"]
  /\ UNCHANGED << scanVars, chatVars, uiVars, extractVars, batchVars, queryVars,
                  turnVars >>

\* apiClient.sendChatMessage rejects: the catch sets the error and removes
\* the last message of the list.
SendChatMessageRejects ==
  /\ chatInterface.isLoading
  /\ chatInterface' =
       [chatInterface EXCEPT
          !.messages = SliceOffLast(@),
          !.isLoading = FALSE,
          !.error = "Failed to send message",
          !.settled = "failed"]
  /\ UNCHANGED << scanVars, chatVars, uiVars, extractVars, batchVars, queryVars,
                  turnVars >>

\* handleScanEmails up to its await; the button is disabled while a scan
\* runs.
handleScanEmails ==
  /\ ~chatInterface.isScanning
  /\ chatInterface' = [chatInterface EXCEPT !.isScanning = TRUE, !.error = NULL]
  /\ UNCHANGED << scanVars, chatVars, uiVars, extractVars, batchVars, queryVars,
                  turnVars >>

\* apiClient.scanEmails resolves: the scan-completion message is appended.
ScanEmailsResolves ==
  /\ chatInterface.isScanning
  /\ Len(chatInterface.messages) <= MaxMessages
  /\ chatInterface' =
       [chatInterface EXCEPT
          !.messages = Append(@, ScanCompleteMessage),
          !.isScanning = FALSE,
          !.addedMeanwhile = IF chatInterface.isLoading
                               THEN Append(@, ScanCompleteMessage) ELSE @,
          !.settled = IF chatInterface.isLoading THEN @ ELSE "none"]
  /\ UNCHANGED << scanVars, chatVars, uiVars, extractVars, batchVars, queryVars,
                  turnVars >>

\* apiClient.scanEmails rejects: the error is set.
ScanEmailsRejects ==
  /\ chatInterface.isScanning
  /\ chatInterface' =
       [chatInterface EXCEPT !.isScanning = FALSE,
                             !.error = "Failed to scan emails"]
  /\ UNCHANGED << scanVars, chatVars, uiVars, extractVars, batchVars, queryVars,
                  turnVars >>

\* ChatInterface.handleClearChat; the button is disabled while a request or
\* a scan is pending and for an empty list.
ClearChatInterface ==
  /\ ~chatInterface.isLoading
  /\ ~chatInterface.isScanning
  /\ chatInterface.messages # <<>>
  /\ chatInterface' = [chatInterface EXCEPT !.messages = <<>>, !.settled = "none"]
  /\ UNCHANGED << scanVars, chatVars, uiVars, extractVars, batchVars, queryVars,
                  turnVars >>

InterfaceInit == chatInterface = MountedInterface

UiInit ==
  /\ lastResponse = {}
  /\ globeFocus = GlobeFocusOf("all", <<>>, <<>>)

ChatInit ==
  /\ chatPc = "idle"
  /\ iterations = 0
  /\ messages = <<>>
  /\ toolCallsInfo = <<>>
  /\ everyToolCalls = TRUE
  /\ chatResponse = NULL
  /\ modelCalls = 0
  /\ chatError = NoError
  /\ httpStatus = 0
  /\ observed = {}
  /\ finalMessageRaw = <<>>

ScanInit ==
  /\ store = {}
  /\ nextId = 1
  /\ req = [r \in Reqs |-> IdleRequest]
  /\ rescans = MaxRescans

vars == << store, nextId, req, rescans, chatPc, iterations, messages,
          toolCallsInfo, everyToolCalls, chatResponse, modelCalls, chatError,
          httpStatus, observed, finalMessageRaw, lastResponse, globeFocus,
          extraction, extracted, batchPc, tasks, batchFlights, overtaken,
          toolRun, turn, chatInterface >>

Init ==
  ScanInit /\ ChatInit /\ UiInit /\ ExtractInit /\ BatchInit /\ QueryInit
    /\ TurnInit /\ InterfaceInit

\* Emails with exactly one accepted segment, which has both a confirmation
\* number and a flight number or neither.
SingleFlightEmails(u) ==
  { x \in Extractions(u) :
      /\ Len(x) = 1
      /\ x[1].confirmationNumber = NULL <=> x[1].flightNumber = NULL }

\* A scan of the second user, then a scan of the first, on a store that works.
Next ==
  \/ StartScan(1, "dedup@example.com", 0..MaxEmails, FALSE)
  \/ /\ req[1].pc = "idle"
     /\ StartScan(2, "other@example.com", {1}, FALSE)
  \/ \E r \in Reqs : ScanEmail(r, SingleFlightEmails(req[r].user), NoFault)

Spec == Init /\ [][Next]_vars

\* A scan and its repetitions over the same emails.
NextRescan ==
  \/ StartScan(1, "dedup@example.com", 1..MaxBatch, FALSE)
  \/ StartRescan(1)
  \/ ScanEmail(1, Extractions(req[1].user), NoFault)

SpecRescan == Init /\ [][NextRescan]_vars

\* The emails two overlapping requests of one booking's owner can be given.
OverlapInbox ==
  { x \in Extractions("dedup@example.com") :
      \A k \in 1..Len(x) : /\ x[k].confirmationNumber = "ABC123"
                            /\ x[k].flightNumber = "UA100" }

\* Two requests of one user that may overlap, MaxBatch + 1 emails in all.
NextOverlap ==
  \/ \E r \in Reqs :
       StartScan(r, "dedup@example.com", 1..(MaxBatch + 1 - Fetched), TRUE)
  \/ \E r \in Reqs : ScanEmail(r, OverlapInbox, NoFault)

SpecOverlap == Init /\ [][NextOverlap]_vars

\* The emails of a scan on a store that can fail: those with a sent date.
DatedEmails(u) ==
  { x \in Extractions(u) : \A k \in 1..Len(x) : x[k].emailSentDate # NULL }

\* A scan of the second user, then a scan of the first, on a store whose
\* INSERT can fail.
NextFault ==
  \/ StartScan(1, "dedup@example.com", 1..MaxBatch, FALSE)
  \/ /\ req[1].pc = "idle"
     /\ StartScan(2, "other@example.com", {1}, FALSE)
  \/ \E r \in Reqs : ScanEmail(r, DatedEmails(req[r].user), StoreFaults)

SpecFault == Init /\ [][NextFault]_vars

\* One chat turn against a backend that answers anything.
NextChat ==
  \/ ChatStart
  \/ ChatIterate(ToolCallLists)
  \/ ChatAnswer(ExitToolCallLists, Contents)
  \/ ChatBackendFails

\* A scan whose extraction calls can fail or return anything.
NextExtract ==
  \/ StartScan(1, "dedup@example.com", 1..MaxBatch, FALSE)
  \/ ExtractionSettles(1, ExtractionOutcomes)
  \/ ScanRawEmail(1, Mailbox("other@example.com"))

SpecExtract == Init /\ [][NextExtract]_vars

\* One batch extraction whose calls can fail.
NextBatch ==
  \/ ParseFlightEmailsStart(1..MaxBatchEmails)
  \/ ExtractionCallSettles(BatchOutcomes)

SpecBatch == Init /\ [][NextBatch]_vars

SpecChat == Init /\ [][NextChat]_vars

\* Tool rounds of one call that succeeds.
OneCallLists == { <<[name |-> "getTotalFlights", arguments |-> "{}"]>> }

\* One chat turn whose final answer can carry focus directives.
NextFocus ==
  \/ ChatStart
  \/ ChatIterate(OneCallLists)
  \/ ChatAnswer({<<>>}, FocusContents)

SpecFocus == Init /\ [][NextFocus]_vars

\* The page is handed a chat response and the chat is cleared; the focus set
\* for a response does not depend on the one before, so one response is
\* handled between two clearings.
NextGlobe ==
  \/ lastResponse = {} /\ handleChatResponse(ChatResponses)
  \/ handleClearChat

SpecGlobe == Init /\ [][NextGlobe]_vars

\* Both users scan their mailboxes, one scan at a time (the second user has
\* one email), and ask questions whose tool calls run between the turns of
\* the scans.
NextQuery ==
  \/ toolRun = {} /\ StartScan(1, "dedup@example.com", 1..MaxEmails, FALSE)
  \/ toolRun = {} /\ StartScan(2, "other@example.com", {1}, FALSE)
  \/ toolRun = {} /\ \E r \in Reqs : ScanEmail(r, QueryInbox, NoFault)
  \/ ExecuteTool({"dedup@example.com", "other@example.com"}, ToolInvocations)
  \/ ToolReturns

SpecQuery == Init /\ [][NextQuery]_vars

\* Messages of three different sent dates.
ChangeMailbox ==
  Mailbox("other@example.com")
    \cup { [id |-> "msg-new", sentDate |-> "2024-04-06T12:00:00.000Z"],
           [id |-> "msg-newest", sentDate |-> "2024-04-07T09:30:00.000Z"] }

\* Emails about one route whose flights share a confirmation code or a
\* flight number, on either day.
ChangeInbox ==
  { EnrichedFlights(<<Segment(b, d)>>, msg) :
      b \in {<<"ABC123", "UA100">>, <<"ABC123", NULL>>, <<"XYZ789", "UA100">>},
      d \in FlightDates, msg \in ChangeMailbox }

\* One scan of emails that change each other's flights.
NextChange ==
  \/ StartScan(1, "dedup@example.com", 1..MaxEmails, FALSE)
  \/ ScanEmail(1, ChangeInbox, NoFault)

SpecChange == Init /\ [][NextChange]_vars

\* The first user scans one email and asks a question; the scan does not
\* run during the turn.
NextTurn ==
  \/ turn.pc = "idle" /\ StartScan(1, "dedup@example.com", {1}, FALSE)
  \/ turn.pc = "idle" /\ ScanEmail(1, QueryInbox, NoFault)
  \/ TurnStart({"dedup@example.com"})
  \/ TurnRound
  \/ TurnExit
  \/ TurnRejects

SpecTurn == Init /\ [][NextTurn]_vars

\* The user sends messages, scans emails and clears the chat.
NextInterface ==
  \/ handleSendMessage
  \/ SendChatMessageResolves
  \/ SendChatMessageRejects
  \/ handleScanEmails
  \/ ScanEmailsResolves
  \/ ScanEmailsRejects
  \/ ClearChatInterface

SpecInterface == Init /\ [][NextInterface]_vars

(***************************************************************************)
(* Properties of the reconciliation                                        *)
(***************************************************************************)

\* The passes of the inner loop a request has made so far.
EventsOf(r) == { req[r].events[k] : k \in 1..Len(req[r].events) }

AllEvents == UNION { EventsOf(r) : r \in Reqs }

\* rows holds a record of f's user whose confirmation code, flight date,
\* airports and flight number are all non-null and equal to those of f.
HoldsExactMatch(rows, f) ==
  \E x \in rows :
    /\ x.user_email = f.user_email
    /\ f.confirmation_number # NULL /\ x.confirmation_number = f.confirmation_number
    /\ f.flight_number # NULL /\ x.flight_number = f.flight_number
    /\ x.flight_date = f.flight_date
    /\ x.departure_airport = f.departure_airport
    /\ x.arrival_airport = f.arrival_airport

\* C1: a candidate whose exact identity-key match is in the store is skipped
\* as a duplicate every time it is reconciled, whatever email it comes from:
\* nothing is deleted, nothing inserted, the record count stays.
C1_DuplicateSkipped ==
  \A e \in AllEvents :
    HoldsExactMatch(e.before, e.flight) =>
      /\ e.decision = "duplicate"
      /\ e.result = "skipped"
      /\ e.after = e.before

\* The same candidate came from two different emails in a repeated scan and
\* was skipped both times, one record stored.
C1_Witness ==
  /\ rescans < MaxRescans
  /\ req[1].pc = "done"
  /\ Len(req[1].events) = 2
  /\ req[1].events[1].decision = "duplicate"
  /\ req[1].events[2].decision = "duplicate"
  /\ IdentityKey(req[1].events[1].flight) = IdentityKey(req[1].events[2].flight)
  /\ req[1].events[1].flight.email_message_id
       # req[1].events[2].flight.email_message_id
  /\ Cardinality(store) = 1

\* The flights of a batch of emails, as the handler builds them.
BatchFlights(userEmail, batch) ==
  UNION { { FlightRecord(userEmail, batch[k][j]) : j \in 1..Len(batch[k]) } :
            k \in 1..Len(batch) }

\* C2 as stated: a second scan over the same batch of emails deletes no record
\* and inserts no record, for every batch.
C2_RescanWritesNothing ==
  \A r \in Reqs :
    req[r].replay # <<>> =>
      /\ store = req[r].storeAtStart
      /\ \A e \in EventsOf(r) : e.after = e.before

\* C2 amended: a second scan over the same batch deletes and inserts nothing
\* when the store left by the first scan holds an exact identity-key match
\* (all key fields non-null) of every segment of the batch.
C2_RescanOfStoredBatchWritesNothing ==
  \A r \in Reqs :
    ( /\ req[r].replay # <<>>
      /\ \A f \in BatchFlights(req[r].user, req[r].replay) :
           HoldsExactMatch(req[r].storeAtStart, f) )
    => /\ store = req[r].storeAtStart
       /\ \A e \in EventsOf(r) : e.after = e.before

\* A repeated scan of two emails with different flights has finished, every
\* flight of the batch was in the store when it began.
C2_Witness ==
  /\ req[1].replay # <<>>
  /\ req[1].pc = "done"
  /\ Len(req[1].events) = 2
  /\ req[1].events[1].flight # req[1].events[2].flight
  /\ \A f \in BatchFlights(req[1].user, req[1].replay) :
       HoldsExactMatch(req[1].storeAtStart, f)
  /\ Cardinality(store) = 2

\* Two candidates share a change key: same user, same departure/arrival pair,
\* and the same confirmation code or the same flight number.
ShareChangeKey(f, g) ==
  /\ f.user_email = g.user_email
  /\ f.departure_airport = g.departure_airport
  /\ f.arrival_airport = g.arrival_airport
  /\ \/ f.confirmation_number # NULL /\ f.confirmation_number = g.confirmation_number
     \/ f.flight_number # NULL /\ f.flight_number = g.flight_number

\* The sent-date of f is a later instant than that of g, both parseable.
SentLater(f, g) ==
  \E t \in parseEmailSentDate(f.email_sent_date) :
    \E u \in parseEmailSentDate(g.email_sent_date) : t > u

\* Two passes in a row over candidates that share a change key, with
\* different flight dates and different parseable sent-dates, into a store
\* with no other record matching either.
SupersessionPair(e1, e2) ==
  /\ ShareChangeKey(e1.flight, e2.flight)
  /\ e1.flight.flight_date # e2.flight.flight_date
  /\ SentLater(e1.flight, e2.flight) \/ SentLater(e2.flight, e1.flight)
  /\ \A x \in e1.before :
       ~ShareChangeKey(e1.flight, x) /\ ~ShareChangeKey(e2.flight, x)
  /\ e2.before = e1.after

\* C3: whichever of the two candidates is reconciled first, exactly one
\* record of the two is stored afterwards and it is the one with the newer
\* sent-date.
C3_SupersessionOrdering ==
  \A r \in Reqs : \A k \in 1..(Len(req[r].events) - 1) :
    LET e1 == req[r].events[k]
        e2 == req[r].events[k + 1]
        newer == IF SentLater(e2.flight, e1.flight) THEN e2.flight ELSE e1.flight
        kept == { x \in e2.after :
                    ShareChangeKey(e1.flight, x) \/ ShareChangeKey(e2.flight, x) }
    IN SupersessionPair(e1, e2) =>
         /\ Cardinality(kept) = 1
         /\ \A x \in kept : Columns(x) = newer
         /\ e2.decision = (IF newer = e2.flight THEN "replace" ELSE "stale")

\* The newer candidate was reconciled first and the older one, arriving
\* second with another flight date, was discarded.
C3_Witness ==
  \E k \in 1..(Len(req[1].events) - 1) :
    /\ SupersessionPair(req[1].events[k], req[1].events[k + 1])
    /\ SentLater(req[1].events[k].flight, req[1].events[k + 1].flight)
    /\ req[1].events[k + 1].decision = "stale"
    /\ \E x \in store : Columns(x) = req[1].events[k].flight

\* The candidate's sent-date parses and is strictly greater than every
\* parseable sent-date among the matched records, or none of theirs parses.
NewerThanAllMatched(f, matched) ==
  \/ \A x \in matched : parseEmailSentDate(x.email_sent_date) = {}
  \/ /\ parseEmailSentDate(f.email_sent_date) # {}
     /\ \A x \in matched : parseEmailSentDate(x.email_sent_date) # {} => SentLater(f, x)

\* C4: a candidate without exact duplicate whose change-key query matched
\* N >= 1 records replaces them (all N deleted, the candidate inserted) iff
\* its sent-date is strictly newer than the newest parseable sent-date among
\* them or none of theirs parses; otherwise it is discarded as stale and the
\* store is unchanged.
C4_SupersessionDecision ==
  \A e \in AllEvents :
    (e.decision # "duplicate" /\ e.matched # {}) =>
      IF NewerThanAllMatched(e.flight, e.matched)
        THEN /\ e.decision = "replace"
             /\ e.result = "saved"
             /\ e.matched \subseteq e.before
             /\ e.after \cap e.matched = {}
             /\ \E x \in e.after \ e.before :
                  /\ Columns(x) = e.flight
                  /\ e.after = (e.before \ e.matched) \cup {x}
        ELSE /\ e.decision = "stale"
             /\ e.result = "skipped"
             /\ e.after = e.before

\* A candidate replaced two matched records at once and is the only record
\* left.
C4_Witness ==
  \E k \in 1..Len(req[1].events) :
    /\ req[1].events[k].decision = "replace"
    /\ Cardinality(req[1].events[k].matched) = 2
    /\ Cardinality(req[1].events[k].after) = 1

\* C5: no two stored records have the same user, confirmation code, flight
\* date, departure airport, arrival airport and flight number, all non-null.
C5_IdentityKeyUnique ==
  \A x \in store : \A y \in store :
    ( /\ x.id # y.id
      /\ x.confirmation_number # NULL /\ x.flight_number # NULL
      /\ y.confirmation_number # NULL /\ y.flight_number # NULL )
    => << x.user_email, x.confirmation_number, x.flight_date,
          x.departure_airport, x.arrival_airport, x.flight_number >>
       # << y.user_email, y.confirmation_number, y.flight_date,
            y.departure_airport, y.arrival_airport, y.flight_number >>

\* The index has refused an insert, and the store holds the same booking on
\* the same day for two users and two bookings of one user.
C5_Witness ==
  /\ \E e \in AllEvents : e.result = "unique"
  /\ \E x \in store : \E y \in store :
       /\ x.user_email # y.user_email
       /\ x.confirmation_number = y.confirmation_number
       /\ x.flight_number = y.flight_number
       /\ x.flight_date = y.flight_date
       /\ FullKey(x)
  /\ \E x \in store : \E y \in store :
       /\ x.user_email = y.user_email /\ x.id # y.id
       /\ FullKey(x) /\ FullKey(y)

\* A candidate with neither confirmation code nor flight number.
NullKey(f) == f.confirmation_number = NULL /\ f.flight_number = NULL

\* C6: a candidate with no confirmation code and no flight number matches
\* nothing in either check and is inserted; two such candidates that are
\* otherwise identical are both stored, as two records.
C6_NullKeyExempt ==
  /\ \A e \in AllEvents :
       NullKey(e.flight) =>
         /\ e.decision = "insert"
         /\ e.matched = {}
         /\ e.result = "saved"
         /\ Cardinality(e.after) = Cardinality(e.before) + 1
  /\ \A r \in Reqs : \A i \in 1..Len(req[r].events) : \A j \in 1..Len(req[r].events) :
       ( /\ i < j
         /\ NullKey(req[r].events[i].flight)
         /\ req[r].events[i].flight = req[r].events[j].flight )
       => \E x \in store : \E y \in store :
            /\ x.id # y.id
            /\ Columns(x) = req[r].events[i].flight
            /\ Columns(y) = req[r].events[i].flight

\* Two identical candidates without key fields were reconciled one after the
\* other, the store already holding a record without key fields of that day.
C6_Witness ==
  /\ Len(req[1].events) = 3
  /\ \A k \in 1..3 : NullKey(req[1].events[k].flight)
  /\ req[1].events[2].flight = req[1].events[3].flight
  /\ req[1].events[1].flight.flight_date = req[1].events[2].flight.flight_date
  /\ Cardinality(store) = 3

\* C7 as stated: a reconciliation that decides to replace either deletes all
\* matched records and inserts the candidate, or leaves the store as it was.
C7_ReplacementAtomic ==
  \A e \in AllEvents :
    e.decision = "replace" =>
      \/ e.after = e.before
      \/ /\ e.after \cap e.matched = {}
         /\ \E x \in e.after \ e.before : Columns(x) = e.flight

\* C8: when two overlapping scans of one user reconcile the same candidate
\* with a full identity key, a scan decides to insert it only while no record
\* with that key is stored, its insert succeeds, and the store holds exactly
\* one record with that key after each pass that does not discard it as
\* stale, never two.
C8_NoDoubleInsert ==
  \A e \in AllEvents :
    LET same(rows) == { x \in rows : FullKey(x) /\ IdentityKey(x) = IdentityKey(e.flight) }
    IN FullKey(e.flight) =>
         /\ e.decision \in {"insert", "replace"} =>
              same(e.before) = {} /\ e.result = "saved"
         /\ e.decision # "stale" => Cardinality(same(e.after)) = 1
         /\ Cardinality(same(store)) <= 1

\* Two requests overlap: the first has saved the flight of one email, the
\* second then saved a candidate, and the first, resuming, found that
\* candidate in its next email and skipped it as a duplicate.
C8_Witness ==
  /\ Len(req[1].events) = 2 /\ Len(req[2].events) = 1
  /\ req[1].limit = 2
  /\ req[1].events[1].result = "saved"
  /\ req[2].events[1].before = req[1].events[1].after
  /\ req[2].events[1].result = "saved"
  /\ req[1].events[2].flight = req[2].events[1].flight
  /\ req[1].events[2].before = req[2].events[1].after
  /\ req[1].events[2].decision = "duplicate"
  /\ FullKey(req[1].events[2].flight)

\* Passes of request r that ended with a saved record.
SavedEvents(r) ==
  { k \in 1..Len(req[r].events) : req[r].events[k].result = "saved" }

\* C9: a unique-constraint violation at the insert is caught: the candidate
\* is not counted as saved, the request does not fail, and the scan goes on
\* with the remaining candidates of the batch.
C9_UniqueViolationCaught ==
  \A r \in Reqs :
    (\E e \in EventsOf(r) : e.result = "unique") =>
      /\ req[r].status # 500
      /\ Len(req[r].savedFlights) = Cardinality(SavedEvents(r))
      /\ Len(req[r].events) = req[r].parsedCount
      /\ req[r].pc = "done" => req[r].scanned = req[r].limit /\ req[r].status = 200

\* The insert of the first candidate of a batch hit the unique index, the
\* next candidate was saved, and the request answered 200.
C9_Witness ==
  /\ req[1].pc = "done"
  /\ req[1].status = 200
  /\ Len(req[1].events) = 2
  /\ req[1].events[1].result = "unique"
  /\ req[1].events[2].result = "saved"
  /\ Len(req[1].savedFlights) = 1

(***************************************************************************)
(* Properties of the chat turn                                             *)
(***************************************************************************)

\* C10 as stated: against a backend that requests another tool call in every
\* response, the turn ends after exactly 5 tool-execution iterations and
\* returns a non-empty answer text.
C10_CapStillAnswers ==
  (chatPc = "done" /\ everyToolCalls) =>
    /\ iterations = 5
    /\ chatResponse.content # <<>>

\* C11 as stated: if any tool call in a model response names a tool outside
\* the catalogue, the turn ends with an error: the route answers 500 and
\* returns no answer and no tool-invocation list.
C11_UnknownToolFatal ==
  ( /\ chatPc \in {"done", "failed"}
    /\ observed \cap {"unknown tool in round", "unknown tool at exit"} # {} )
  => /\ chatPc = "failed"
     /\ httpStatus = 500
     /\ chatResponse = NULL

\* C11 amended: if a tool call names a tool outside the catalogue in a response
\* with finish_reason 'tool_calls' received before the cap of 5 iterations,
\* the turn ends with an error, no answer and no tool-invocation list is
\* returned, no call after the failing one is executed and no further model
\* call is made.
C11_UnknownToolInRoundFatal ==
  /\ []( "unknown tool in round" \in observed =>
           /\ chatPc = "failed"
           /\ chatError.kind \in {"Unknown tool", "SyntaxError"}
           /\ httpStatus = 500
           /\ chatResponse = NULL
           /\ \A k \in 1..Len(toolCallsInfo) : toolCallsInfo[k] # "unknownTool" )
  /\ [][ ("unknown tool in round" \in observed'
            /\ "unknown tool in round" \notin observed)
         => /\ modelCalls' = modelCalls
            /\ Len(toolCallsInfo') = Len(toolCallsInfo) + chatError'.at - 1 ]_vars
  /\ [][ chatPc = "failed" => modelCalls' = modelCalls /\ toolCallsInfo' = toolCallsInfo ]_vars

\* After a round that succeeded, the second call of a response named an
\* unknown tool: the first call was executed, the turn failed.
C11_Witness ==
  /\ chatPc = "failed"
  /\ chatError = [kind |-> "Unknown tool", at |-> 2]
  /\ iterations = 2
  /\ Len(toolCallsInfo) = 2
  /\ modelCalls = 2
  /\ httpStatus = 500

\* C12: a rejected model call, the first or one after a tool round, is not
\* retried: no further model call is made, the route answers 500 once, with no
\* answer and no tool-invocation list.
C12_ModelFailureNotRetried ==
  /\ []( "model call rejected" \in observed =>
           /\ chatPc = "failed"
           /\ chatError.kind = "APIError"
           /\ httpStatus = 500
           /\ chatResponse = NULL )
  /\ [][ "model call rejected" \in observed' => modelCalls' = modelCalls ]_vars

\* The model call after a tool round was rejected: tools had been executed,
\* nothing of them is returned.
C12_Witness ==
  /\ chatPc = "failed"
  /\ "model call rejected" \in observed
  /\ iterations = 1
  /\ modelCalls = 2
  /\ Len(toolCallsInfo) = 1
  /\ chatResponse = NULL

\* The text has a directive block: an opening marker that a closing marker
\* follows.
HasDirectiveBlock(str) ==
  \E i, j \in 1..Len(str) :
    i < j /\ str[i] = "<globe_focus>" /\ str[j] = "</globe_focus>"

Contains(str, tokens) == \E k \in 1..Len(str) : str[k] \in tokens

\* C13 as stated: for every final answer that contains a block delimited by
\* <globe_focus> ... </globe_focus>, the text returned to the user contains
\* neither marker nor a directive's JSON, whether the payload parses or not.
C13_FocusBlockStripped ==
  (chatPc = "done" /\ HasDirectiveBlock(finalMessageRaw)) =>
    ~Contains(chatResponse.content, {"<globe_focus>", "</globe_focus>"} \cup Payloads)

\* The payloads that are malformed: no JSON, no object, a mode outside
\* all/flights/airports.
MalformedPayloads == {FocusBrokenJson, FocusNumber, FocusBadMode}

\* The final answer is text around one directive block whose payload is
\* malformed, and the text is without markers.
MalformedDirective(str) ==
  \E i, j \in 1..Len(str) :
    /\ i < j /\ str[i] = "<globe_focus>" /\ str[j] = "</globe_focus>"
    /\ \A k \in 1..Len(str) :
         str[k] \in {"<globe_focus>", "</globe_focus>"} => k \in {i, j}
    /\ \E k \in (i + 1)..(j - 1) : str[k] \in MalformedPayloads
    /\ \A k \in (i + 1)..(j - 1) : str[k] \in MalformedPayloads \cup {" "}
    /\ Cardinality({ k \in (i + 1)..(j - 1) : str[k] # " " }) = 1

\* The text of an answer without its directive block.
WithoutBlock(str) ==
  LET i == CHOOSE a \in 1..Len(str) : str[a] = "<globe_focus>"
      j == CHOOSE a \in 1..Len(str) : str[a] = "</globe_focus>"
  IN SubSeq(str, 1, i - 1) \o SubSeq(str, j + 1, Len(str))

\* C14: a malformed directive payload (invalid JSON, a non-object, a mode
\* other than all/flights/airports) never fails the turn: the route answers
\* 200, the directive is omitted, and the answer text (the text around the
\* block, trimmed) and the list of the tools executed are returned.
C14_MalformedFocusDiscarded ==
  ((chatPc \in {"done", "failed"}) /\ MalformedDirective(finalMessageRaw)) =>
    /\ chatPc = "done"
    /\ httpStatus = 200
    /\ chatError = NoError
    /\ chatResponse.globeFocus = {}
    /\ chatResponse.content = Trim(WithoutBlock(finalMessageRaw))
    /\ chatResponse.toolCalls = toolCallsInfo

\* After a tool round the answer is text followed by a block whose mode is
\* outside the three: the text and the tool are returned, no directive.
C14_Witness ==
  /\ chatPc = "done"
  /\ finalMessageRaw = <<"text", "<globe_focus>", FocusBadMode, "</globe_focus>">>
  /\ chatResponse.content = <<"text">>
  /\ chatResponse.globeFocus = {}
  /\ chatResponse.toolCalls = <<"getTotalFlights">>

(***************************************************************************)
(* Properties of the globe focus                                           *)
(***************************************************************************)

\* The directive of the answer's block is usable: mode all, mode flights with
\* a flight, mode airports with a code that is not empty.
UsableDirective(response) ==
  \E f \in response.globeFocus :
    \/ f.mode = "all"
    \/ f.mode = "flights" /\ f.flights # <<>>
    \/ f.mode = "airports"
         /\ \E k \in 1..Len(f.airports) : f.airports[k].code \notin {NULL, ""}

\* Flight records the two flight tools of the turn returned.
ToolFlights(response) ==
  { item \in UNION { { tc.result.items[k] : k \in 1..Len(tc.result.items) } :
                       tc \in { response.toolCalls[n] : n \in 1..Len(response.toolCalls) } } :
      /\ \E n \in 1..Len(response.toolCalls) :
           /\ response.toolCalls[n].tool \in {"getFlightsByDateRange", "getFlightsByAirport"}
           /\ response.toolCalls[n].result.isArray
           /\ \E k \in 1..Len(response.toolCalls[n].result.items) :
                response.toolCalls[n].result.items[k] = item
      /\ item.departure_airport # NULL
      /\ item.arrival_airport # NULL
      /\ item.flight_date # NULL }

\* Airport codes getAirportVisits returned in the turn, upper-cased.
ToolCodes(response) ==
  { ToUpperCase(IF item.airport # NULL THEN item.airport ELSE item.code) :
      item \in { it \in UNION { { response.toolCalls[n].result.items[k] :
                                    k \in 1..Len(response.toolCalls[n].result.items) } :
                                n \in { m \in 1..Len(response.toolCalls) :
                                          /\ response.toolCalls[m].tool = "getAirportVisits"
                                          /\ response.toolCalls[m].result.isArray } } :
                   it.airport # NULL \/ it.code # NULL } }

Range(q) == { q[k] : k \in 1..Len(q) }

\* C15: the focus applied for a chat response is the directive of the answer
\* when it is usable; otherwise mode flights with the flight records the
\* flight tools returned, if any; otherwise mode airports with the codes
\* getAirportVisits returned, if any; otherwise mode all. It is one of the
\* three modes, and a flights or airports focus is never empty.
C15_FocusFallbackChain ==
  \A response \in lastResponse :
    /\ globeFocus.type \in {"all", "flights", "airports"}
    /\ globeFocus.type = "flights" => globeFocus.flights # <<>>
    /\ globeFocus.type = "airports" => globeFocus.airportCodes # <<>>
    /\ IF UsableDirective(response)
         THEN \E f \in response.globeFocus :
                /\ globeFocus.type = f.mode
                /\ f.mode = "flights" => globeFocus.flights = f.flights
                /\ f.mode = "airports" =>
                     Range(globeFocus.airportCodes) =
                       { ToUpperCase(f.airports[k].code) :
                           k \in { n \in 1..Len(f.airports) : f.airports[n].code \notin {NULL, ""} } }
       ELSE IF ToolFlights(response) # {}
         THEN /\ globeFocus.type = "flights"
              /\ Range(globeFocus.flights) = ToolFlights(response)
       ELSE IF ToolCodes(response) # {}
         THEN /\ globeFocus.type = "airports"
              /\ Range(globeFocus.airportCodes) = ToolCodes(response)
       ELSE globeFocus.type = "all"

\* The answer's directive is mode flights without flights, and the turn's
\* getAirportVisits returned codes, no flight tool a flight: the focus is on
\* the airports.
C15_Witness ==
  \E response \in lastResponse :
    /\ \E f \in response.globeFocus : f.mode = "flights" /\ f.flights = <<>>
    /\ ToolFlights(response) = {}
    /\ Len(response.toolCalls) = 2
    /\ globeFocus = GlobeFocusOf("airports", <<>>, <<"LAX", "SFO">>)

(***************************************************************************)
(* Properties of the extraction                                            *)
(***************************************************************************)

\* An airport code that, trimmed and in upper case, has 3 characters and is
\* in the directory.
KnownAirport(field) ==
  /\ Len(iata(field)) = 3
  /\ Str(iata(field)) \in AirportDirectory

\* The request's turn for an email whose extraction call has settled.
EmailTurn(r) == extraction[r] # {} /\ extraction'[r] = {}

SettledOutcome(r) == CHOOSE outcome \in extraction[r] : TRUE

C17_ExtractionFailureTolerated ==
  [][ \A r \in Reqs :
        (EmailTurn(r) /\ OutcomeKind(SettledOutcome(r)).kind # "segments") =>
          /\ store' = store
          /\ req'[r].batch[Len(req'[r].batch)] = <<>>
          /\ req'[r].parsedCount = req[r].parsedCount
          /\ req'[r].savedFlights = req[r].savedFlights
          /\ req'[r].scanned = req[r].scanned + 1
          /\ IF req'[r].scanned = req[r].limit
               THEN req'[r].pc = "done" /\ req'[r].status = 200
               ELSE req'[r].pc = "loop" /\ req'[r].status = 0 ]_vars

\* The extraction call of the first email was rejected, the second email's
\* segment was saved and the scan answered 200.
C17_Witness ==
  /\ req[1].pc = "done"
  /\ req[1].status = 200
  /\ Len(extracted[1]) = 2
  /\ extracted[1][1].kind = "rejected"
  /\ extracted[1][2].kind = "segments"
  /\ req[1].parsedCount = 1
  /\ Len(req[1].savedFlights) = 1

\* C18 as stated: in the batch extraction an email whose extraction call
\* fails with a retryable error (429, 5xx, connection reset) is called again,
\* up to 3 retries with a delay that doubles, and an email whose call fails
\* with another error is not called again.
C18_RetryableErrorRetried ==
  \A k \in 1..Len(tasks) :
    (tasks[k].state \in {"done", "thrown"}) =>
      LET last == tasks[k].calls[Len(tasks[k].calls)]
      IN /\ (last # NoApiError /\ isRetryable(last)) =>
              Len(tasks[k].calls) = retries + 1
         /\ \A c \in 1..(Len(tasks[k].calls) - 1) : isRetryable(tasks[k].calls[c])
         /\ tasks[k].delays =
              [c \in 1..(Len(tasks[k].calls) - 1) |-> retryDelay * Pow2(c - 1)]

\* Flights of an email that comes later in the batch are behind the flights
\* of every earlier email.
InInputOrder(flights) ==
  \A a, b \in 1..Len(flights) :
    a < b => BatchIndex(flights[a].emailMessageId) <= BatchIndex(flights[b].emailMessageId)

\* C19: at most 3 extraction calls of a batch are in flight at any instant,
\* and the flights the batch returns are in the order of the input emails,
\* in whatever order the calls complete.
C19_BoundedFanOutKeepsOrder ==
  /\ Cardinality({ k \in 1..Len(tasks) : tasks[k].state = "calling" }) <= 3
  /\ batchPc = "resolved" =>
       /\ InInputOrder(batchFlights)
       /\ \A k \in 1..Len(tasks) :
            Cardinality({ a \in 1..Len(batchFlights) :
                            batchFlights[a].emailMessageId = BatchMessage(k).id })
              = Len(tasks[k].flights)

\* A batch of four emails has resolved; a call completed before the call of
\* an earlier email, and flights of three emails were returned.
C19_Witness ==
  /\ batchPc = "resolved"
  /\ Len(tasks) = 4
  /\ overtaken
  /\ Cardinality({ batchFlights[a].emailMessageId : a \in 1..Len(batchFlights) }) >= 3

(***************************************************************************)
(* Properties of the records passed outward                                *)
(***************************************************************************)

CarriesRawBody(record) ==
  /\ "raw_email_content" \in DOMAIN record
  /\ record.raw_email_content # NULL

Users == {"dedup@example.com", "other@example.com"}

\* C20 as stated: no flight record passed outward carries the raw email
\* body: not the results of the flight tools, not the records a scan returns,
\* not the flight listing.
C20_NoRawBodyOutward ==
  /\ \A u \in Users : \A record \in FlightToolResults(store, u) : ~CarriesRawBody(record)
  /\ \A r \in Reqs : \A record \in ScanResponseFlights(r) : ~CarriesRawBody(record)
  /\ \A u \in Users : \A record \in getFlightsByUser(store, u) : ~CarriesRawBody(record)


(***************************************************************************)
(* Properties of the query tools                                           *)
(***************************************************************************)

\* C21: the result of every tool call made in a chat turn of a user is
\* computed from the rows of that user only: it is what the same call
\* returns on a table that holds no row of any other user. In particular
\* getEmailBodies returns no body of a row of another user whose message id
\* is the one asked for.
C21_ToolIsolation ==
  \A t \in toolRun :
    t.result = executeTool(t.call, t.user, getFlightsByUser(store, t.user))


\* A year argument as the tool schema describes it: absent, or the number of
\* a calendar year.
CalendarYear(year) ==
  \A y \in year : y.type = "number" /\ Len(y.tokens) = 1 /\ y.tokens # <<"0">>

\* The rows of the user whose flight date is in the year, or all of them
\* when no year is given.
RowsOfYear(rows, userEmail, year) ==
  { row \in rows :
      /\ row.user_email = userEmail
      /\ \A y \in year : strftimeYear(row.flight_date) = y.tokens[1] }

\* C22: the result of getAirportVisits is a set. Every airport that is the
\* departure or the arrival airport of at least one row of the user (of the
\* rows dated in the year, when a year is given) is in the result exactly
\* once, and no other airport is in it.
C22_AirportVisitsIsSet ==
  \A t \in toolRun :
    t.call.name = "getAirportVisits" /\ CalendarYear(t.call.year) =>
      LET own == RowsOfYear(store, t.user, t.call.year)
          endpoints == { row.departure_airport : row \in own }
                         \cup { row.arrival_airport : row \in own }
          entries == BagToSet(t.result)
      IN /\ { e.airport : e \in entries } = endpoints
         /\ \A e \in entries : CopiesIn(e, t.result) = 1
         /\ \A code \in endpoints :
              Cardinality({ e \in entries : e.airport = code }) = 1

\* The visits of a year are asked for by a user with two flights of that
\* year that share an airport and a flight of another year.
C22_Witness ==
  \E t \in toolRun :
    /\ t.call.name = "getAirportVisits"
    /\ t.call.year = {YearNumber("2024")}
    /\ \E a, b, c \in getFlightsByUser(store, t.user) :
         /\ a.id # b.id
         /\ strftimeYear(a.flight_date) = "2024"
         /\ strftimeYear(b.flight_date) = "2024"
         /\ a.arrival_airport = b.departure_airport
         /\ strftimeYear(c.flight_date) = "2023"
    /\ BagCardinality(t.result) = 3


(***************************************************************************)
(* Properties of the conversation of a chat turn                           *)
(***************************************************************************)

\* A response asks for one tool invocation or more.
RequestsTools(response) == response.tool_calls # <<>>

\* The responses of the turn whose tool calls were executed: those whose
\* assistant message is in the conversation.
ExecutedResponses ==
  { i \in 1..Len(turn.responses) :
      \E m \in 1..Len(turn.messages) :
        /\ turn.messages[m].role = "assistant"
        /\ turn.messages[m].tool_calls = turn.responses[i].tool_calls }

AuditEntry(toolCall) ==
  LET call == ParseArguments(toolCall.function.name, toolCall.function.arguments)
  IN [ tool |-> toolCall.function.name, arguments |-> call,
       result |-> executeTool(call, turn.userEmail, store) ]

\* The entries of the calls of the responses i, i + 1, ... of the executed
\* rounds, round by round and within a round in the order of the response.
RECURSIVE AuditFrom(_)
AuditFrom(i) ==
  IF i > turn.iterations THEN <<>>
  ELSE [ k \in 1..Len(turn.responses[i].tool_calls) |->
           AuditEntry(turn.responses[i].tool_calls[k]) ] \o AuditFrom(i + 1)

\* The list chat() returned; undefined is a list without entries.
ReturnedToolCalls ==
  IF turn.toolCalls = {} THEN <<>> ELSE CHOOSE list \in turn.toolCalls : TRUE

\* C24: at the end of a successful turn the list of tool calls returned has
\* exactly one entry (name, arguments, result) for every tool call of an
\* executed round, round by round and within a round in the order of the
\* response; and the tool messages of a round follow its assistant message in
\* that order, each with the id of its call and the result of that call.
C24_ToolCallAudit ==
  turn.pc = "done" =>
    /\ ReturnedToolCalls = AuditFrom(1)
    /\ \A i \in 1..turn.iterations :
         LET tool_calls == turn.responses[i].tool_calls
             at == turn.sent[i] + 1
         IN /\ turn.messages[at].role = "assistant"
            /\ turn.messages[at].tool_calls = tool_calls
            /\ \A k \in 1..Len(tool_calls) :
                 /\ turn.messages[at + k].role = "tool"
                 /\ turn.messages[at + k].tool_call_id = {tool_calls[k].id}
                 /\ turn.messages[at + k].content =
                      JSONstringify(AuditEntry(tool_calls[k]).result)

\* A turn of a user with a stored flight of 2024 ends after two rounds of
\* two calls each, the first round asking for the airports and then for the
\* number of flights.
C24_Witness ==
  /\ turn.pc = "done"
  /\ getFlightsByUser(store, turn.userEmail) # {}
  /\ turn.iterations = 2
  /\ Len(ReturnedToolCalls) = 4
  /\ ReturnedToolCalls[1].tool = "getAirportVisits"
  /\ BagCardinality(ReturnedToolCalls[1].result) = 2
  /\ ReturnedToolCalls[2].tool = "getTotalFlights"
  /\ ReturnedToolCalls[2].result.total = 1


(***************************************************************************)
(* Properties of the store and of the scan report                          *)
(***************************************************************************)

\* C25: every stored record is, column for column with its provenance, a
\* candidate that a pass inserted whole; no record is changed in place; and a
\* record is removed only by a pass whose candidate matched it on the change
\* key and was judged newer. A pass that skips its candidate as a duplicate
\* or as stale leaves every record as it was.
C25_StoreLifecycle ==
  /\ \A x \in store :
       \E e \in AllEvents :
         /\ e.result = "saved"
         /\ x \in e.after \ e.before
         /\ Columns(x) = e.flight
  /\ \A e \in AllEvents :
       /\ \A x \in e.after \ e.before :
            /\ Columns(x) = e.flight
            /\ \A y \in e.before : y.id # x.id
       /\ Cardinality(e.after \ e.before) <= 1
       /\ \A x \in e.before \ e.after :
            /\ e.decision = "replace"
            /\ x \in e.matched
            /\ ShareChangeKey(e.flight, x)
            /\ NewerThanAllMatched(e.flight, e.matched)
       /\ e.decision \in {"duplicate", "stale"} => e.after = e.before

\* A pass replaced a record of an older email while a record of another
\* booking stayed, and a later pass discarded a stale candidate.
C25_Witness ==
  \E j, k \in 1..Len(req[1].events) :
    /\ j < k
    /\ req[1].events[j].decision = "replace"
    /\ req[1].events[j].before \ req[1].events[j].after # {}
    /\ req[1].events[j].before \cap req[1].events[j].after # {}
    /\ req[1].events[k].decision = "stale"


\* The candidates request r has reconciled so far.
Candidates(r) == { e.flight : e \in EventsOf(r) }

\* The candidates reconciled by r are a group: each was reconciled once, any
\* two share a change key and have different parseable sent-dates, and the
\* store held no record sharing a change key with one of them before.
ChangeGroup(r) ==
  /\ Candidates(r) # {}
  /\ Cardinality(Candidates(r)) = Len(req[r].events)
  /\ \A f, g \in Candidates(r) :
       f # g => /\ ShareChangeKey(f, g)
                /\ SentLater(f, g) \/ SentLater(g, f)
  /\ \A f \in Candidates(r) : parseEmailSentDate(f.email_sent_date) # {}
  /\ \A f \in Candidates(r) : \A x \in req[r].storeAtStart : ~ShareChangeKey(f, x)

\* The store holds exactly one record that shares a change key with a
\* candidate of r, and it is the candidate with the greatest sent-date.
NewestStored(r) ==
  LET kept == { x \in store : \E f \in Candidates(r) : ShareChangeKey(f, x) }
  IN /\ Cardinality(kept) = 1
     /\ \A x \in kept :
          /\ Columns(x) \in Candidates(r)
          /\ \A g \in Candidates(r) : g # Columns(x) => SentLater(Columns(x), g)

\* C26 as stated: after the candidates of a group are reconciled, in any
\* order, the store holds exactly one record of the group, the candidate
\* with the greatest sent-date, also when candidates of the group have the
\* same full identity key.
C26_NewestEmailWins ==
  \A r \in Reqs : ChangeGroup(r) => NewestStored(r)

\* No two candidates of r have the same identity key with all its fields
\* non-null.
DistinctIdentityKeys(r) ==
  \A f, g \in Candidates(r) :
    (f # g /\ FullKey(f) /\ FullKey(g)) => IdentityKey(f) # IdentityKey(g)

\* C26 amended: after the candidates of a group no two of which have the
\* same full identity key are reconciled, in any order, into a store that
\* held no record sharing a change key with them, the store holds exactly one
\* record of the group, the candidate with the greatest sent-date.
C26_NewestEmailWinsDistinctKeys ==
  \A r \in Reqs :
    (ChangeGroup(r) /\ DistinctIdentityKeys(r)) => NewestStored(r)

\* Three candidates of a group were reconciled, the newest of them first,
\* two of them for the same flight date.
C26_Witness ==
  /\ ChangeGroup(1) /\ DistinctIdentityKeys(1)
  /\ Len(req[1].events) = 3
  /\ SentLater(req[1].events[1].flight, req[1].events[2].flight)
  /\ SentLater(req[1].events[1].flight, req[1].events[3].flight)
  /\ req[1].events[2].flight.flight_date = req[1].events[3].flight.flight_date
  /\ req[1].events[2].decision = "stale"
  /\ req[1].events[3].decision = "stale"


\* Two candidates of one user for different bookings of the same flight
\* number on the same route: different non-null confirmation codes and
\* different flight dates.
DistinctBookings(f, g) ==
  /\ f.user_email = g.user_email
  /\ f.confirmation_number # NULL /\ g.confirmation_number # NULL
  /\ f.confirmation_number # g.confirmation_number
  /\ f.flight_date # g.flight_date
  /\ f.flight_number # NULL /\ f.flight_number = g.flight_number
  /\ f.departure_airport = g.departure_airport
  /\ f.arrival_airport = g.arrival_airport

\* C27 as stated: two candidates for different bookings of the same flight
\* number and route, reconciled one after the other in either order into a
\* store with no record matching either, are both stored afterwards,
\* whatever their sent-dates.
C27_DistinctBookingsKept ==
  \A r \in Reqs : \A k \in 1..(Len(req[r].events) - 1) :
    LET e1 == req[r].events[k]
        e2 == req[r].events[k + 1]
    IN ( /\ DistinctBookings(e1.flight, e2.flight)
         /\ e2.before = e1.after
         /\ \A x \in e1.before :
              ~ShareChangeKey(e1.flight, x) /\ ~ShareChangeKey(e2.flight, x) )
       => /\ \E x \in e2.after : Columns(x) = e1.flight
          /\ \E x \in e2.after : Columns(x) = e2.flight


\* The passes a request made for the emails before email k of its batch.
RECURSIVE PassesBefore(_, _)
PassesBefore(batch, k) ==
  IF k = 1 THEN 0 ELSE Len(batch[k - 1]) + PassesBefore(batch, k - 1)

\* Email k of request r yielded several segments with pairwise different
\* identity keys, and the store held no record matching one of them when its
\* first segment was reconciled.
SeveralNewSegments(r, k) ==
  LET x == req[r].batch[k]
      first == req[r].events[PassesBefore(req[r].batch, k) + 1]
  IN /\ Len(x) > 1
     /\ \A i, j \in 1..Len(x) :
          i # j => IdentityKey(FlightRecord(req[r].user, x[i]))
                     # IdentityKey(FlightRecord(req[r].user, x[j]))
     /\ \A j \in 1..Len(x) : \A row \in first.before :
          /\ ~ShareChangeKey(FlightRecord(req[r].user, x[j]), row)
          /\ ~HoldsExactMatch({row}, FlightRecord(req[r].user, x[j]))

\* C28 as stated: when one email yields several accepted segments with
\* pairwise different identity keys and the store holds no record matching
\* any of them, every one of the segments is stored after the email is
\* reconciled: none is discarded as stale and none is deleted for another
\* segment of the email.
C28_SegmentsOfOneEmailKept ==
  \A r \in Reqs : \A k \in 1..Len(req[r].batch) :
    SeveralNewSegments(r, k) =>
      LET x == req[r].batch[k]
          off == PassesBefore(req[r].batch, k)
      IN \A j \in 1..Len(x) :
           /\ req[r].events[off + j].result = "saved"
           /\ \E row \in req[r].events[off + Len(x)].after :
                Columns(row) = FlightRecord(req[r].user, x[j])


\* The table when request r made its last pass.
StoreAtEnd(r) ==
  IF req[r].events = <<>> THEN req[r].storeAtStart
  ELSE req[r].events[Len(req[r].events)].after

\* C29 as stated: at the end of every scan the number of saved flights is the
\* length of the returned list, it is at most the number of parsed flights,
\* and every record of the returned list is in the store: a record that was
\* inserted and then superseded in the same scan is not reported.
C29_ScanReportConsistent ==
  \A r \in Reqs :
    (req[r].pc = "done" /\ req[r].status = 200) =>
      /\ Cardinality(SavedEvents(r)) = Len(req[r].savedFlights)
      /\ Len(req[r].savedFlights) <= req[r].parsedCount
      /\ ScanResponseFlights(r) \subseteq StoreAtEnd(r)


(***************************************************************************)
(* Properties of the chat interface                                        *)
(***************************************************************************)

\* C30 as stated: when a chat request has failed, the message list is the
\* list before the send, without the failed user message, followed by the
\* scan-completion messages added while the request was pending.
C30_RollbackOnFailure ==
  chatInterface.settled = "failed" =>
    chatInterface.messages
      = chatInterface.beforeSend \o chatInterface.addedMeanwhile

====
